---------------------------- MODULE Spec2Model ----------------------------
(***************************************************************************)
(* FrameShift: length/offset-field relations over a raw byte buffer.       *)
(*                                                                         *)
(* The module models                                                       *)
(*   - core/structured.rs : Relation (on_insert, on_remove, apply, save,   *)
(*     restore) and Structured (write, insert, remove, insert_disabling,   *)
(*     remove_disabling, sanitize, insertion_points, ...),                 *)
(*   - core/search.rs     : the candidate gates of find_relations_inner    *)
(*     and check_anchor, with the coverage oracle's answers left open      *)
(*     (Spec), and the whole search against given oracles (OracleSpec),    *)
(*   - components/structured_input.rs and wrapped_mutator.rs : the         *)
(*     HasMutatorBytes primitives and WrappedMutator::mutate,              *)
(*   - components/search_stage.rs : SearchStage::perform over a corpus of  *)
(*     entries with an InputStatus (StageSpec).                            *)
(*                                                                         *)
(* Offsets (usize) are naturals; they index a buffer that exists, so they  *)
(* never come near 2^64.  Relation::value is a u64 that does not depend on *)
(* any buffer (Relation::new takes any u64), and the width checks of       *)
(* on_insert compare it with 0xff .. 0xffffffffffffffff, so it is modelled *)
(* with its width: eight bytes, least significant first, with wrapping     *)
(* addition (the release build's `+=`).                                    *)
(***************************************************************************)
EXTENDS Integers, Sequences, FiniteSets, TLC

VARIABLES
    raw,          \* Structured::raw
    relations,    \* Structured::relations
    phase,        \* where the buffer is in its life: "new", "search", "ready", "crashed"
    origin,       \* how the relation list was made: "raw", "search", "api"
    op,           \* the last call made on the buffer (history)
    prev,         \* raw and relations as they were before that call (history)
    failed,       \* some call has returned Err so far (history)
    nedits,       \* number of edit calls made so far
    search,       \* find_relations' loop state: pass number, cursor, found flag
    ctx,          \* the SearchContext: oracle, options, focus_indices, loss_threshold
    corpus,       \* the corpus: per CorpusId the stored StructuredInput
    stage         \* SearchStage::perform: current entry, position, oracle calls (history)

vars == <<raw, relations, phase, origin, op, prev, failed, nedits, search,
          ctx, corpus, stage>>

---------------------------------------------------------------------------
(* Bounds of the model.                                                    *)

\* Longest raw buffer an insertion may produce.
MaxLen == 10
\* Number of edit calls in one behaviour.
MaxEdits == 1
\* Longest relation list built before the edits start.
MaxRels == 2
\* Number of on_insert / on_remove calls made on one relation.
MaxCalls == 3
\* Largest offset passed to on_insert / on_remove on one relation.
MaxIdx == 8
\* Largest field position of a relation that apply is called on.
MaxPos == 3
\* Number of entries of the coverage map an oracle returns.
MapSize == 12
\* Number of SearchStage::perform calls in one behaviour.
MaxPerforms == 3

---------------------------------------------------------------------------
(* u64 arithmetic: a value is <<b0, ..., b7>>, b0 least significant.       *)

Min(a, b) == IF a < b THEN a ELSE b

\* `n as u64` for an offset or byte count n (n < 2^31 in the model).
u64(n) ==
    << n % 256, (n \div 256) % 256, (n \div 65536) % 256,
       (n \div 16777216) % 256, 0, 0, 0, 0 >>

\* A u64 that has a bit above bit 23 set; every offset of the model is smaller.
u64_is_big(v) == \E k \in 4..8 : v[k] # 0

\* The low 24 bits, as a natural.
u64_low(v) == v[1] + 256 * v[2] + 65536 * v[3]

RECURSIVE u64_add_from(_, _, _)
u64_add_from(v, k, carry) ==
    IF k > 8 THEN v
    ELSE LET s == v[k] + carry
         IN  u64_add_from([v EXCEPT ![k] = s % 256], k + 1, s \div 256)

\* v + n in 64 bits; the carry out of byte 7 is dropped (wrapping add).
u64_wrapping_add(v, n) == u64_add_from(v, 1, n)

RECURSIVE u64_carry_from(_, _, _)
u64_carry_from(v, k, carry) ==
    IF k > 8 THEN carry
    ELSE u64_carry_from(v, k + 1, (v[k] + carry) \div 256)

\* v + n does not fit 64 bits: `+=` panics in a build with overflow checks and
\* wraps in a build without.
u64_add_overflows(v, n) == u64_carry_from(v, 1, n) > 0

RECURSIVE u64_sub_from(_, _, _)
u64_sub_from(v, k, borrow) ==
    IF k > 8 THEN v
    ELSE LET low  == borrow % 256
             high == borrow \div 256
         IN  IF v[k] >= low
             THEN u64_sub_from([v EXCEPT ![k] = v[k] - low], k + 1, high)
             ELSE u64_sub_from([v EXCEPT ![k] = v[k] + 256 - low], k + 1, high + 1)

\* v - n for n <= v.
u64_sub(v, n) == u64_sub_from(v, 1, n)

\* (n as u64) > v
nat_gt_u64(n, v) == ~u64_is_big(v) /\ n > u64_low(v)

\* v > max_val of a field of `size` bytes (structured.rs 254-263): some byte
\* above the field's width is set.  For size 8 there is no such byte.
exceeds_max_val(v, size) == \E k \in (size + 1)..8 : v[k] # 0

\* The largest value a field of `size` bytes holds.
max_val(size) == [k \in 1..8 |-> IF k <= size THEN 255 ELSE 0]

Reverse(s) == [k \in 1..Len(s) |-> s[Len(s) + 1 - k]]

\* The supported field widths (structured.rs 254-261, 334-345).
Sizes == {1, 2, 3, 4, 8}


---------------------------------------------------------------------------
(* Relation (structured.rs 206-365).  Offsets are 0-based as in the source; *)
(* byte k (0-based) of a buffer b is b[k + 1].                              *)

Relation_new(pos, value, size, le, anchor, insert) ==
    [ pos |-> pos, value |-> value, size |-> size, le |-> le,
      anchor |-> anchor, insert |-> insert, enabled |-> TRUE,
      old_pos |-> pos, old_anchor |-> anchor, old_insert |-> insert,
      old_value |-> value ]

\* on_insert moving the anchor with `idx <= anchor`, so that an anchor of 0 is not pinned.
Relation_on_insert_unpinned(r, idx, size) ==
    IF idx > r.pos /\ idx < r.pos + r.size
    THEN [ok |-> FALSE, rel |-> r]
    ELSE LET grown == idx >= r.anchor /\ idx <= r.insert
             r1 == IF grown THEN [r EXCEPT !.value = u64_wrapping_add(@, size)] ELSE r
         IN  IF grown /\ exceeds_max_val(r1.value, r.size)
             THEN [ok |-> FALSE, rel |-> r1]
             ELSE [ ok  |-> TRUE,
                    rel |-> [r1 EXCEPT !.pos    = IF idx <= r.pos    THEN @ + size ELSE @,
                                       !.anchor = IF idx <= r.anchor THEN @ + size ELSE @,
                                       !.insert = IF idx <= r.insert THEN @ + size ELSE @] ]

\* on_insert that grows the region only for an insertion strictly before
\* the insert point.
Relation_on_insert_before_insert(r, idx, size) ==
    IF idx > r.pos /\ idx < r.pos + r.size
    THEN [ok |-> FALSE, rel |-> r]
    ELSE LET grown == idx >= r.anchor /\ idx < r.insert
             r1 == IF grown THEN [r EXCEPT !.value = u64_wrapping_add(@, size)] ELSE r
         IN  IF grown /\ exceeds_max_val(r1.value, r.size)
             THEN [ok |-> FALSE, rel |-> r1]
             ELSE [ ok  |-> TRUE,
                    rel |-> [r1 EXCEPT !.pos    = IF idx <= r.pos    THEN @ + size ELSE @,
                                       !.anchor = IF idx <  r.anchor THEN @ + size ELSE @,
                                       !.insert = IF idx <  r.insert THEN @ + size ELSE @] ]

\* on_insert that gives the relation back as it was when the value does not
\* fit the width.
Relation_on_insert_atomic(r, idx, size) ==
    IF idx > r.pos /\ idx < r.pos + r.size
    THEN [ok |-> FALSE, rel |-> r]
    ELSE LET grown == idx >= r.anchor /\ idx <= r.insert
             r1 == IF grown THEN [r EXCEPT !.value = u64_wrapping_add(@, size)] ELSE r
         IN  IF grown /\ exceeds_max_val(r1.value, r.size)
             THEN [ok |-> FALSE, rel |-> r]
             ELSE [ ok  |-> TRUE,
                    rel |-> [r1 EXCEPT !.pos    = IF idx <= r.pos    THEN @ + size ELSE @,
                                       !.anchor = IF idx <  r.anchor THEN @ + size ELSE @,
                                       !.insert = IF idx <= r.insert THEN @ + size ELSE @] ]

\* Relation::on_insert(idx, size): the result and the relation as the call leaves it.
\* On the width error the value has already been increased (line 251 runs before
\* the check of line 263).
Relation_on_insert(r, idx, size) ==
    IF idx > r.pos /\ idx < r.pos + r.size
    THEN [ok |-> FALSE, rel |-> r]
    ELSE LET grown == idx >= r.anchor /\ idx <= r.insert
             r1 == IF grown THEN [r EXCEPT !.value = u64_wrapping_add(@, size)] ELSE r
         IN  IF grown /\ exceeds_max_val(r1.value, r.size)
             THEN [ok |-> FALSE, rel |-> r1]
             ELSE [ ok  |-> TRUE,
                    rel |-> [r1 EXCEPT !.pos    = IF idx <= r.pos    THEN @ + size ELSE @,
                                       !.anchor = IF idx <  r.anchor THEN @ + size ELSE @,
                                       !.insert = IF idx <= r.insert THEN @ + size ELSE @] ]

\* usize::clamp(lo, hi); the source panics when lo > hi.
clamp(x, lo, hi) == IF x < lo THEN lo ELSE IF x > hi THEN hi ELSE x

\* on_remove that moves the offsets but leaves the value alone.
Relation_on_remove_keeps_value(r, idx, size) ==
    IF idx < r.pos + r.size /\ idx + size > r.pos
    THEN [ok |-> FALSE, rel |-> r]
    ELSE LET pre_pos    == IF idx < r.pos    THEN Min(r.pos - idx, size)    ELSE 0
             pre_anchor == IF idx < r.anchor THEN Min(r.anchor - idx, size) ELSE 0
             pre_insert == IF idx < r.insert THEN Min(r.insert - idx, size) ELSE 0
         IN  [ ok  |-> TRUE,
               rel |-> [r EXCEPT !.pos    = @ - pre_pos,
                                 !.anchor = @ - pre_anchor,
                                 !.insert = @ - pre_insert] ]

\* on_remove that leaves the insert point where it was.
Relation_on_remove_keeps_insert(r, idx, size) ==
    IF idx < r.pos + r.size /\ idx + size > r.pos
    THEN [ok |-> FALSE, rel |-> r]
    ELSE LET pre_pos    == IF idx < r.pos    THEN Min(r.pos - idx, size)    ELSE 0
             pre_anchor == IF idx < r.anchor THEN Min(r.anchor - idx, size) ELSE 0
             overlap_min == clamp(idx, r.anchor, r.insert)
             overlap_max == clamp(idx + size, r.anchor, r.insert)
             insert_overlap == overlap_max - overlap_min
         IN  IF nat_gt_u64(insert_overlap, r.value)
             THEN [ok |-> FALSE, rel |-> r]
             ELSE [ ok  |-> TRUE,
                    rel |-> [r EXCEPT !.value  = u64_sub(@, insert_overlap),
                                      !.pos    = @ - pre_pos,
                                      !.anchor = @ - pre_anchor] ]

\* Relation::on_remove(idx, size).
Relation_on_remove(r, idx, size) ==
    IF idx < r.pos + r.size /\ idx + size > r.pos
    THEN [ok |-> FALSE, rel |-> r]
    ELSE LET pre_pos    == IF idx < r.pos    THEN Min(r.pos - idx, size)    ELSE 0
             pre_anchor == IF idx < r.anchor THEN Min(r.anchor - idx, size) ELSE 0
             pre_insert == IF idx < r.insert THEN Min(r.insert - idx, size) ELSE 0
             overlap_min == clamp(idx, r.anchor, r.insert)
             overlap_max == clamp(idx + size, r.anchor, r.insert)
             insert_overlap == overlap_max - overlap_min
         IN  IF nat_gt_u64(insert_overlap, r.value)
             THEN [ok |-> FALSE, rel |-> r]
             ELSE [ ok  |-> TRUE,
                    rel |-> [r EXCEPT !.value  = u64_sub(@, insert_overlap),
                                      !.pos    = @ - pre_pos,
                                      !.anchor = @ - pre_anchor,
                                      !.insert = @ - pre_insert] ]

\* The bytes apply writes: `value as uN` keeps the low N bytes; to_le_bytes gives
\* them least significant first, to_be_bytes most significant first; for size 3
\* the low three bytes of the u32 (to_le_bytes()[0..3], to_be_bytes()[1..4]).
Relation_bytes(r) ==
    LET low == SubSeq(r.value, 1, r.size)
    IN  IF r.le THEN low ELSE Reverse(low)

\* apply indexes input[pos + i] for i < size; out of the slice it panics.
Relation_apply_in_bounds(r, input) == r.pos + r.size <= Len(input)

\* apply that always writes the value least significant byte first.
Relation_apply_le_only(r, input) ==
    [k \in 1..Len(input) |->
        IF k > r.pos /\ k <= r.pos + r.size
        THEN SubSeq(r.value, 1, r.size)[k - r.pos]
        ELSE input[k]]

\* Relation::apply(input), for a relation inside the slice.
Relation_apply(r, input) ==
    [k \in 1..Len(input) |->
        IF k > r.pos /\ k <= r.pos + r.size
        THEN Relation_bytes(r)[k - r.pos]
        ELSE input[k]]

Relation_save(r) ==
    [r EXCEPT !.old_pos = r.pos, !.old_anchor = r.anchor,
              !.old_insert = r.insert, !.old_value = r.value]

Relation_restore(r) ==
    [r EXCEPT !.pos = r.old_pos, !.anchor = r.old_anchor,
              !.insert = r.old_insert, !.value = r.old_value]

\* uN::from_le_bytes / from_be_bytes of buf[i .. i+size], widened to 64 bits
\* (search.rs 196-205).
from_bytes(buf, i, size, le) ==
    LET field == SubSeq(buf, i + 1, i + size)
        low   == IF le THEN field ELSE Reverse(field)
    IN  [k \in 1..8 |-> IF k <= size THEN low[k] ELSE 0]

---------------------------------------------------------------------------
(* Structured (structured.rs 6-203).                                       *)

\* Vec::splice(start..end, data) on a byte vector; start = end inserts,
\* data = <<>> is Vec::drain(start..end).
splice(buf, start, end, data) ==
    SubSeq(buf, 1, start) \o data \o SubSeq(buf, end + 1, Len(buf))

\* Vec::swap_remove(i), i 0-based: the last element takes the place of element i.
swap_remove(list, i) ==
    LET n == Len(list)
    IN  [k \in 1..(n - 1) |-> IF k = i + 1 THEN list[n] ELSE list[k]]

\* The loops `for rel in relations.iter_mut() { if !rel.enabled { continue } ... }`
\* of insert, on_insert, insert_disabling: what each relation's on_insert answers.
insert_results(rels, idx, size) ==
    [k \in 1..Len(rels) |->
        IF rels[k].enabled THEN Relation_on_insert(rels[k], idx, size)
        ELSE [ok |-> TRUE, rel |-> rels[k]]]

remove_results(rels, idx, size) ==
    [k \in 1..Len(rels) |->
        IF rels[k].enabled THEN Relation_on_remove(rels[k], idx, size)
        ELSE [ok |-> TRUE, rel |-> rels[k]]]

\* The 1-based positions whose relation rejected, in increasing order
\* (the vector `disabled` holds them 0-based).
RECURSIVE rejected_from(_, _)
rejected_from(results, k) ==
    IF k > Len(results) THEN << >>
    ELSE IF results[k].ok THEN rejected_from(results, k + 1)
         ELSE <<k>> \o rejected_from(results, k + 1)

rejected(results) == rejected_from(results, 1)

\* A strict loop returns at the first Err: the relations before it have been
\* updated, the rejecting one is as its on_* left it, the rest are untouched.
strict_loop(rels, results) ==
    LET rej == rejected(results)
    IN  IF rej = << >>
        THEN [ok |-> TRUE,  relations |-> [k \in 1..Len(rels) |-> results[k].rel]]
        ELSE [ok |-> FALSE, relations |->
                 [k \in 1..Len(rels) |-> IF k <= rej[1] THEN results[k].rel ELSE rels[k]]]

\* `for i in disabled.iter().rev() { relations.swap_remove(*i) }`
RECURSIVE swap_remove_all(_, _, _)
swap_remove_all(list, disabled, j) ==
    IF j = 0 THEN list
    ELSE swap_remove_all(swap_remove(list, disabled[j] - 1), disabled, j - 1)

\* The same loop without .rev(): swap_remove in increasing order of position.
RECURSIVE swap_remove_forward(_, _, _)
swap_remove_forward(list, disabled, j) ==
    IF j > Len(disabled) \/ disabled[j] > Len(list) THEN list
    ELSE swap_remove_forward(swap_remove(list, disabled[j] - 1), disabled, j + 1)

\* A disabling loop that keeps the rejecting relations and clears their flag.
keep_disabled(rels, results) ==
    [k \in 1..Len(rels) |->
        IF results[k].ok THEN results[k].rel ELSE [results[k].rel EXCEPT !.enabled = FALSE]]

drop_forward(rels, results) ==
    swap_remove_forward([k \in 1..Len(rels) |-> results[k].rel], rejected(results), 1)

\* The relation list insert_disabling / remove_disabling leave: every relation
\* as its on_* left it, then the rejecting ones swap-removed, last first.
drop_rejected(rels, results) ==
    LET rej == rejected(results)
    IN  swap_remove_all([k \in 1..Len(rels) |-> results[k].rel], rej, Len(rej))

\* sanitize panics (index out of bounds in apply) unless every enabled relation
\* lies inside the buffer.
sanitize_in_bounds(buf, rels) ==
    \A k \in 1..Len(rels) : rels[k].enabled => Relation_apply_in_bounds(rels[k], buf)

RECURSIVE sanitize_from(_, _, _)
sanitize_from(buf, rels, k) ==
    IF k > Len(rels) THEN buf
    ELSE sanitize_from(IF rels[k].enabled THEN Relation_apply(rels[k], buf) ELSE buf,
                       rels, k + 1)

\* Structured::sanitize and sanitize_buffer: apply of every enabled relation, in
\* list order.
sanitize(buf, rels) == sanitize_from(buf, rels, 1)

\* Structured::insertion_points: len(raw) and the insert of every relation.
\* Insertion points that also offer the start of the buffer.
insertion_points_with_start(buf, rels) ==
    {0, Len(buf)} \cup {rels[k].insert : k \in 1..Len(rels)}

insertion_points(buf, rels) ==
    {Len(buf)} \cup {rels[k].insert : k \in 1..Len(rels)}

\* Structured::inflection_points: pos, anchor, insert of the 4- and 8-byte fields.
inflection_points(rels) ==
    UNION { {rels[k].pos, rels[k].anchor, rels[k].insert} :
            k \in {j \in 1..Len(rels) : rels[j].size = 4 \/ rels[j].size = 8} }

\* restore_relations that puts the offsets back and leaves the value.
restore_relations_offsets_only(rels) ==
    [k \in 1..Len(rels) |->
        [rels[k] EXCEPT !.pos = rels[k].old_pos, !.anchor = rels[k].old_anchor,
                        !.insert = rels[k].old_insert]]

save_relations(rels)    == [k \in 1..Len(rels) |-> Relation_save(rels[k])]
restore_relations(rels) == [k \in 1..Len(rels) |-> Relation_restore(rels[k])]

---------------------------------------------------------------------------
(* SearchContext (search.rs): the scan of find_relations_inner.  The oracle *)
(* is not modelled by a function: whether a corrupted field loses enough    *)
(* coverage and which tested anchor recovers it are left open, so every     *)
(* relation some oracle can make the search commit is reachable.            *)

\* SearchOptions::default().max_iters
max_iters == 10

\* rel_types of find_relations_inner, in scan order.
rel_types ==
    << [size |-> 8, le |-> TRUE], [size |-> 8, le |-> FALSE],
       [size |-> 4, le |-> TRUE], [size |-> 4, le |-> FALSE],
       [size |-> 2, le |-> TRUE], [size |-> 2, le |-> FALSE],
       [size |-> 1, le |-> TRUE] >>

\* blocked_points: the bytes covered by the field of a relation of the list.
\* A scan that marks no byte as taken by a confirmed field.
blocked_never(rels, b) == FALSE

blocked(rels, b) ==
    \E k \in 1..Len(rels) : b >= rels[k].pos /\ b < rels[k].pos + rels[k].size

\* shift_amount (search.rs 212-222), for a decoded value that passed line 208.
shift_amount(size, curr_size) ==
    IF size = 1 THEN Min(32, 255 - curr_size) ELSE 255

\* candidate_ok without the blocked_points check.
candidate_ok_unblocked(buf, rels, i, t) ==
    LET size == rel_types[t].size
        v    == from_bytes(buf, i, size, rel_types[t].le)
    IN  /\ i + size <= Len(buf)
        /\ ~u64_is_big(v)
        /\ u64_low(v) # 0
        /\ u64_low(v) <= Len(buf)
        /\ ~(size = 1 /\ 255 - u64_low(v) = 0)

\* The gates a candidate (i, size, le) passes before the first probe
\* (search.rs 192-229).
candidate_ok(buf, rels, i, t) ==
    LET size == rel_types[t].size
        v    == from_bytes(buf, i, size, rel_types[t].le)
    IN  /\ i + size <= Len(buf)
        /\ ~u64_is_big(v)
        /\ u64_low(v) # 0
        /\ u64_low(v) <= Len(buf)
        /\ ~(size = 1 /\ 255 - u64_low(v) = 0)
        /\ \A k \in 0..(size - 1) : ~blocked(rels, i + k)

\* The scan position after (i, t): the next type at i, then the next position.
cursor_next(c) ==
    IF c.t < Len(rel_types) THEN [i |-> c.i, t |-> c.t + 1] ELSE [i |-> c.i + 1, t |-> 1]

\* The first candidate at or after cursor c that passes the gates; i = Len(buf)
\* when the pass is over.  The scan is `for i in 0..len` over `for rel_type in
\* rel_types`, so cursor (i, t) is scan step i * |rel_types| + t - 1.
next_candidate(buf, rels, c) ==
    LET types == Len(rel_types)
        at(n) == [i |-> n \div types, t |-> (n % types) + 1]
        left  == {n \in (c.i * types + c.t - 1)..(Len(buf) * types - 1) :
                     candidate_ok(buf, rels, at(n).i, at(n).t)}
    IN  IF left = {} THEN [i |-> Len(buf), t |-> 1]
        ELSE at(CHOOSE n \in left : \A o \in left : n <= o)

\* The anchors find_relations_inner hands to check_anchor for a field at i
\* (search.rs 278-307).
anchor_candidates(rels, i, size) ==
    IF size = 1 THEN {i + size}
    ELSE IF size = 2 THEN {0, i, i + size}
    ELSE {i + size + k : k \in 1..7} \cup {0, i, i + size} \cup inflection_points(rels)

\* local_anchors taking the start of the field, not its end, as the anchor of
\* a 1-byte field.
local_anchors_field_start(i, size) ==
    IF size = 1 THEN << i >>
    ELSE IF size = 2 THEN << 0, i, i + size >>
    ELSE << i + size + 7, i + size + 6, i + size + 5, i + size + 4,
            i + size + 3, i + size + 2, i + size + 1, 0, i, i + size >>

\* The anchors tried first for a field of the given size at i, in the order
\* of search.rs 278-300.
local_anchors(i, size) ==
    IF size = 1 THEN << i + size >>
    ELSE IF size = 2 THEN << 0, i, i + size >>
    ELSE << i + size + 7, i + size + 6, i + size + 5, i + size + 4,
            i + size + 3, i + size + 2, i + size + 1, 0, i, i + size >>

\* Structured::on_insert(idx, size): the strict loop, no byte change.
Structured_on_insert(rels, idx, size) ==
    strict_loop(rels, insert_results(rels, idx, size))

\* check_anchor's own gates (search.rs 336-357): the insertion lies in the
\* seed, the anchor is a byte of the seed, the relations take the insertion.
check_anchor_ok(buf, rels, anchor, curr_size, shift) ==
    LET ins == anchor + curr_size
    IN  /\ ins <= Len(buf)
        /\ anchor < Len(buf)
        /\ Structured_on_insert(rels, ins, shift).ok

\* The relation committed for the field (i, t) with an accepted anchor
\* (search.rs 231-243, 400-401, 315).
potential(buf, i, t, anchor) ==
    LET size == rel_types[t].size
        v    == from_bytes(buf, i, size, rel_types[t].le)
    IN  [ pos |-> i, value |-> v, size |-> size, le |-> rel_types[t].le,
          anchor |-> anchor, insert |-> anchor + u64_low(v), enabled |-> TRUE,
          old_pos |-> 0, old_anchor |-> 0, old_insert |-> 0, old_value |-> u64(0) ]

\* Vec::resize(n, 0): cut to n bytes, or filled up with zeros.
vec_resize(buf, n) == [k \in 1..n |-> IF k <= Len(buf) THEN buf[k] ELSE 0]

\* dst[start .. start + len(src)].copy_from_slice(src)
copy_from_slice(dst, start, src) ==
    [k \in 1..Len(dst) |->
        IF k > start /\ k <= start + Len(src) THEN src[k - start] ELSE dst[k]]

\* The buffer check_anchor hands to self.test (search.rs 359-371), built in
\* test_buffer: resized, the seed from ins on copied behind the gap, the gap
\* filled with 0x41, the corrupted field applied (moved by the shift when
\* ins < field_pos), then every enabled relation as on_insert left it.
scratch_buffer(test_buffer, seed, moved, i, t, anchor) ==
    LET size    == rel_types[t].size
        curr    == u64_low(from_bytes(seed, i, size, rel_types[t].le))
        shift   == shift_amount(size, curr)
        ins     == anchor + curr
        resized == vec_resize(test_buffer, Len(seed) + shift)
        shifted == copy_from_slice(resized, ins + shift, SubSeq(seed, ins + 1, Len(seed)))
        filled  == copy_from_slice(shifted, ins, [k \in 1..shift |-> 65])
        field   == [potential(seed, i, t, anchor) EXCEPT
                       !.pos = IF ins < i THEN i + shift ELSE i,
                       !.value = u64(curr + shift)]
    IN  sanitize(Relation_apply(field, filled), moved)

\* What one call of check_anchor (search.rs 335-384) does to input.relations,
\* to test_buffer and to anchor_visited_cache: `at` is the three before the
\* call, the result the three after it.
check_anchor_leaves(seed, i, t, anchor, at) ==
    LET size  == rel_types[t].size
        curr  == u64_low(from_bytes(seed, i, size, rel_types[t].le))
        shift == shift_amount(size, curr)
        ins   == anchor + curr
        moved == Structured_on_insert(at.relations, ins, shift)
        sent  == scratch_buffer(at.test_buffer, seed, moved.relations, i, t, anchor)
    IN  IF ins > Len(seed) THEN at
        ELSE IF anchor >= Len(seed) \/ anchor \in at.visited THEN at
        ELSE IF ~moved.ok
             THEN [ relations   |-> restore_relations(moved.relations),
                    test_buffer |-> at.test_buffer,
                    visited     |-> at.visited \cup {anchor} ]
             ELSE [ relations   |-> restore_relations(moved.relations),
                    test_buffer |-> copy_from_slice(vec_resize(sent, Len(seed)), 0, seed),
                    visited     |-> at.visited \cup {anchor} ]

\* check_anchor over a list of anchors, in order.
RECURSIVE check_anchors_leave(_, _, _, _, _)
check_anchors_leave(seed, i, t, anchors, at) ==
    IF anchors = << >> THEN at
    ELSE check_anchors_leave(seed, i, t, Tail(anchors),
                             check_anchor_leaves(seed, i, t, Head(anchors), at))

\* The orders a HashSet can be iterated in.
RECURSIVE iteration_orders(_)
iteration_orders(set) ==
    IF set = {} THEN { << >> }
    ELSE UNION { { <<x>> \o rest : rest \in iteration_orders(set \ {x}) } : x \in set }

\* What the probe of one candidate (search.rs 245-307) leaves in
\* input.relations and test_buffer before anything is committed:
\* save_relations, the corrupted field applied to test_buffer and put back
\* from the seed, then, if the loss passed the threshold (`gate`), the local
\* anchors and, if none of them matched (`inflect`), the inflection points in
\* some order.
candidate_leaves(seed, rels, test_buffer, i, t, gate, inflect) ==
    LET size    == rel_types[t].size
        curr    == u64_low(from_bytes(seed, i, size, rel_types[t].le))
        corrupt == [potential(seed, i, t, 0) EXCEPT
                       !.value = u64(curr + shift_amount(size, curr))]
        start   == [ relations   |-> save_relations(rels),
                     test_buffer |-> copy_from_slice(Relation_apply(corrupt, test_buffer), i,
                                                     SubSeq(seed, i + 1, i + size)),
                     visited     |-> {} ]
        local   == check_anchors_leave(seed, i, t, local_anchors(i, size), start)
    IN  IF ~gate THEN {start}
        ELSE IF size <= 2 \/ ~inflect THEN {local}
        ELSE { check_anchors_leave(seed, i, t, order, local) :
                  order \in iteration_orders(inflection_points(rels)) }

---------------------------------------------------------------------------
(* Inputs.                                                                 *)

\* Scenario seed: a 1-byte length 4 at offset 1 governing bytes 2..6.
SeedA == <<1, 4, 65, 65, 65, 65, 255, 255>>
\* A 2-byte big-endian length at 0 and a 2-byte little-endian length at 4.
SeedB == <<0, 2, 65, 65, 2, 0, 66, 66>>
\* A 4-byte little-endian length at 0.
SeedC == <<2, 0, 0, 0, 65, 65>>

\* Buffers born raw (StructuredInput::new_raw).
Seeds == {SeedA, SeedB, SeedC}

\* Buffers that arrive with a relation list (from_file with a sidecar, or
\* add_relation / set_relation_enabled): fields inside the buffer, pairwise
\* disjoint, values that fit the width and are the bytes of the field.  Two
\* 1-byte fields sit one insertion away from their width's maximum, one
\* relation is not enabled.
RelMaxA == Relation_new(0, u64(254), 1, TRUE, 1, 3)
RelMaxB == Relation_new(7, u64(255), 1, TRUE, 0, 7)
RelBE   == Relation_new(3, u64(2), 2, FALSE, 5, 7)
RelOff  == [Relation_new(5, u64(66), 1, TRUE, 6, 7) EXCEPT !.enabled = FALSE]
RelHead == Relation_new(0, u64(2), 2, FALSE, 2, 4)
\* A length at 4 behind an unannotated byte, and a 1-byte field at 0 one
\* insertion away from its maximum whose range holds that byte.
RelTail == Relation_new(4, u64(2), 2, FALSE, 6, 8)
RelFull == Relation_new(0, u64(254), 1, TRUE, 1, 4)

Annotated ==
    { [raw |-> <<254, 65, 65, 0, 2, 66, 66, 255>>,
       relations |-> <<RelBE, RelMaxA, RelOff, RelMaxB>>],
      [raw |-> <<254, 65, 65, 0, 2, 66, 66, 255>>,
       relations |-> <<RelMaxA, RelMaxB, RelBE>>],
      [raw |-> SeedB, relations |-> <<RelHead>>],
      [raw |-> <<254, 1, 66, 66, 0, 2, 65, 65>>, relations |-> <<RelTail, RelFull>>] }

\* The bytes an insertion inserts, a write writes, and the lengths removed.
InsertData == { <<66>>, <<66, 66>> }
WriteData  == { <<0>>, <<0, 0>> }
RemoveSizes == {1, 2}

\* A call on the buffer: its name, offset, bytes, byte count and result.
Call(name, idx, data, size, ok) ==
    [name |-> name, idx |-> idx, data |-> data, size |-> size, ok |-> ok]

NoOp == Call("none", 0, << >>, 0, TRUE)
NoSearch == [iter |-> 0, c |-> [i |-> 0, t |-> 1], found |-> FALSE, test_buffer |-> << >>]
\* No search context, no corpus, no stage: the buffer is used on its own.
NoContext == [oracle |-> "open"]
NoCorpus == << >>
NoStage == [pc |-> "none"]

Init ==
    /\ \/ /\ raw \in Seeds
          /\ relations = << >>
          /\ origin = "raw"
       \/ /\ \E a \in Annotated : raw = a.raw /\ relations = a.relations
          /\ origin = "api"
    /\ phase = "new"
    /\ op = NoOp
    /\ prev = [raw |-> raw, relations |-> relations]
    /\ failed = FALSE
    /\ nedits = 0
    /\ search = NoSearch
    /\ ctx = NoContext
    /\ corpus = NoCorpus
    /\ stage = NoStage

---------------------------------------------------------------------------
(* The search (SearchContext::search, find_relations, find_relations_inner). *)

FirstCursor == [i |-> 0, t |-> 1]

\* search(): the context is built and the first pass starts.
SearchStart ==
    /\ phase = "new"
    /\ phase' = "search"
    /\ search' = [iter |-> 1, c |-> next_candidate(raw, relations, FirstCursor),
                  found |-> FALSE, test_buffer |-> raw]
    /\ origin' = IF origin = "raw" THEN "search" ELSE origin
    /\ UNCHANGED <<raw, relations, op, prev, failed, nedits, ctx, corpus, stage>>

\* One candidate that passed the gates is probed and not committed: the loss is
\* under the threshold or no anchor recovers it.  save_relations has run; the
\* probes' bookkeeping is rolled back by restore_relations.
SearchNoCommit ==
    /\ phase = "search"
    /\ search.c.i < Len(raw)
    /\ \E gate, inflect \in BOOLEAN :
          \E left \in candidate_leaves(raw, relations, search.test_buffer,
                                       search.c.i, search.c.t, gate, inflect) :
             /\ relations' = left.relations
             /\ search' = [search EXCEPT
                              !.c = next_candidate(raw, relations', cursor_next(search.c)),
                              !.test_buffer = left.test_buffer]
    /\ UNCHANGED <<raw, phase, origin, op, prev, failed, nedits, ctx, corpus, stage>>

\* One candidate is probed and an anchor that passed check_anchor's gates is
\* accepted: the relation is appended.
SearchCommit ==
    /\ phase = "search"
    /\ search.c.i < Len(raw)
    /\ Len(relations) < MaxRels
    /\ LET i     == search.c.i
           t     == search.c.t
           size  == rel_types[t].size
           curr  == u64_low(from_bytes(raw, i, size, rel_types[t].le))
           saved == save_relations(relations)
       IN  \E anchor \in anchor_candidates(saved, i, size) :
              /\ check_anchor_ok(raw, saved, anchor, curr, shift_amount(size, curr))
              /\ \E inflect \in BOOLEAN :
                    /\ inflect => size > 2 /\ anchor \in inflection_points(saved)
                    /\ ~inflect => \E k \in 1..Len(local_anchors(i, size)) :
                                      local_anchors(i, size)[k] = anchor
                    /\ \E left \in candidate_leaves(raw, relations, search.test_buffer,
                                                     i, t, TRUE, inflect) :
                          /\ relations' = Append(left.relations, potential(raw, i, t, anchor))
                          /\ search' = [search EXCEPT
                                 !.c = next_candidate(raw, relations', cursor_next(search.c)),
                                 !.found = TRUE,
                                 !.test_buffer = left.test_buffer]
    /\ UNCHANGED <<raw, phase, origin, op, prev, failed, nedits, ctx, corpus, stage>>

\* The pass is over: another pass if this one found a relation and max_iters
\* allows, else the search returns and its context is dropped.
SearchPassEnd ==
    /\ phase = "search"
    /\ search.c.i >= Len(raw)
    /\ IF search.found /\ search.iter < max_iters
       THEN /\ search' = [iter |-> search.iter + 1,
                          c |-> next_candidate(raw, relations, FirstCursor),
                          found |-> FALSE, test_buffer |-> raw]
            /\ phase' = phase
       ELSE /\ search' = NoSearch
            /\ phase' = "ready"
    /\ UNCHANGED <<raw, relations, origin, op, prev, failed, nedits, ctx, corpus, stage>>

\* The buffer is used as it was constructed.
Unsearched ==
    /\ phase = "new"
    /\ phase' = "ready"
    /\ UNCHANGED <<raw, relations, origin, op, prev, failed, nedits, search, ctx, corpus, stage>>

---------------------------------------------------------------------------
(* The edits of Structured.                                                *)

CanEdit == phase = "ready" /\ nedits < MaxEdits

\* What a call leaves: the new buffer, or a panic that ends the process.
Outcome(call, panics, newraw, newrels) ==
    /\ op' = call
    /\ prev' = [raw |-> raw, relations |-> relations]
    /\ nedits' = nedits + 1
    /\ failed' = (failed \/ ~call.ok)
    /\ IF panics
       THEN /\ phase' = "crashed"
            /\ UNCHANGED <<raw, relations>>
       ELSE /\ phase' = phase
            /\ raw' = newraw
            /\ relations' = newrels
    /\ UNCHANGED <<origin, search, ctx, corpus, stage>>

\* write that overwrites the bytes and does not sanitize.
write_no_sanitize(buf, rels, idx, data) ==
    [ panics |-> FALSE,
      raw |-> splice(buf, idx, idx + Len(data), data), relations |-> rels ]

\* What write(idx, data) leaves.
write(buf, rels, idx, data) ==
    LET spliced == splice(buf, idx, idx + Len(data), data)
    IN  [ panics |-> ~sanitize_in_bounds(spliced, rels),
          raw |-> sanitize(spliced, rels), relations |-> rels ]

\* Structured::write(idx, data), idx + len(data) <= len(raw).
Write ==
    /\ CanEdit
    /\ \E data \in WriteData : \E idx \in 0..Len(raw) :
         /\ idx + Len(data) <= Len(raw)
         /\ LET res == write(raw, relations, idx, data)
            IN  Outcome(Call("write", idx, data, Len(data), TRUE),
                        res.panics, res.raw, res.relations)

\* Structured::insert(idx, data), idx <= len(raw).  The values of the buffers
\* of this specification stay far below 2^64: the additions of on_insert never
\* overflow 64 bits here (RelOnInsert covers the values that do).
Insert ==
    /\ CanEdit
    /\ \E data \in InsertData : \E idx \in 0..Len(raw) :
         /\ Len(raw) + Len(data) <= MaxLen
         /\ LET res     == strict_loop(relations, insert_results(relations, idx, Len(data)))
                spliced == splice(raw, idx, idx, data)
                call    == Call("insert", idx, data, Len(data), res.ok)
            IN  IF res.ok
                THEN Outcome(call, ~sanitize_in_bounds(spliced, res.relations),
                             sanitize(spliced, res.relations), res.relations)
                ELSE Outcome(call, FALSE, raw, res.relations)

\* Structured::remove(idx, size), idx + size <= len(raw).
Remove ==
    /\ CanEdit
    /\ \E size \in RemoveSizes : \E idx \in 0..Len(raw) :
         /\ idx + size <= Len(raw)
         /\ LET res     == strict_loop(relations, remove_results(relations, idx, size))
                drained == splice(raw, idx, idx + size, << >>)
                call    == Call("remove", idx, << >>, size, res.ok)
            IN  IF res.ok
                THEN Outcome(call, ~sanitize_in_bounds(drained, res.relations),
                             sanitize(drained, res.relations), res.relations)
                ELSE Outcome(call, FALSE, raw, res.relations)

\* An insert_disabling that gives up, as insert does, when a relation rejects.
insert_disabling_gives_up(buf, rels, idx, data) ==
    LET results == insert_results(rels, idx, Len(data))
        kept    == drop_rejected(rels, results)
        spliced == splice(buf, idx, idx, data)
    IN  IF rejected(results) # << >>
        THEN [ panics |-> FALSE, raw |-> buf, relations |-> rels ]
        ELSE [ panics |-> ~sanitize_in_bounds(spliced, kept),
               raw |-> sanitize(spliced, kept), relations |-> kept ]

\* What insert_disabling(idx, data) leaves.
insert_disabling(buf, rels, idx, data) ==
    LET kept    == drop_rejected(rels, insert_results(rels, idx, Len(data)))
        spliced == splice(buf, idx, idx, data)
    IN  [ panics |-> ~sanitize_in_bounds(spliced, kept),
          raw |-> sanitize(spliced, kept), relations |-> kept ]

\* What remove_disabling(idx, size) leaves.
remove_disabling(buf, rels, idx, size) ==
    LET kept    == drop_rejected(rels, remove_results(rels, idx, size))
        drained == splice(buf, idx, idx + size, << >>)
    IN  [ panics |-> ~sanitize_in_bounds(drained, kept),
          raw |-> sanitize(drained, kept), relations |-> kept ]

\* Structured::insert_disabling(idx, data), idx <= len(raw).
InsertDisabling ==
    /\ CanEdit
    /\ \E data \in InsertData : \E idx \in 0..Len(raw) :
         /\ Len(raw) + Len(data) <= MaxLen
         /\ LET res == insert_disabling(raw, relations, idx, data)
            IN  Outcome(Call("insert_disabling", idx, data, Len(data), TRUE),
                        res.panics, res.raw, res.relations)

\* Structured::remove_disabling(idx, size), idx + size <= len(raw).
RemoveDisabling ==
    /\ CanEdit
    /\ \E size \in RemoveSizes : \E idx \in 0..Len(raw) :
         /\ idx + size <= Len(raw)
         /\ LET res == remove_disabling(raw, relations, idx, size)
            IN  Outcome(Call("remove_disabling", idx, << >>, size, TRUE),
                        res.panics, res.raw, res.relations)

---------------------------------------------------------------------------
(* HasMutatorBytes for StructuredInput and WrappedMutator::mutate.         *)

\* What a primitive that panicked leaves.
Panicked(buf, rels) == [panics |-> TRUE, raw |-> buf, relations |-> rels]

\* bytes_mut: the mutator overwrites one byte of the buffer in place.
bytes_mut(buf, rels, idx, b) ==
    [panics |-> FALSE, raw |-> [buf EXCEPT ![idx + 1] = b], relations |-> rels]

\* resize(new_len, value) that grows: `diff` bytes of `value` go in at one of
\* insertion_points(), picked by the seeded generator.
resize_grow(buf, rels, insert_pos, data) ==
    IF insert_pos > Len(buf) THEN Panicked(buf, rels)
    ELSE insert_disabling(buf, rels, insert_pos, data)

\* resize(new_len, value) that shrinks: the tail is removed.
resize_shrink(buf, rels, new_len) ==
    remove_disabling(buf, rels, new_len, Len(buf) - new_len)

\* extend(iter): the bytes go in at the end.
extend(buf, rels, data) == insert_disabling(buf, rels, Len(buf), data)

\* splice(start..end, replace_with): a write of the part that fits, then the
\* rest is removed or inserted.
splice_input(buf, rels, start, end, data) ==
    LET prev_size == end - start
        new_size  == Len(data)
    IN  IF prev_size = new_size THEN write(buf, rels, start, data)
        ELSE IF prev_size > new_size
        THEN LET w == write(buf, rels, start, data)
             IN  IF w.panics THEN w
                 ELSE remove_disabling(w.raw, w.relations, start + new_size,
                                       prev_size - new_size)
        ELSE LET w == write(buf, rels, start, SubSeq(data, 1, prev_size))
             IN  IF w.panics THEN w
                 ELSE insert_disabling(w.raw, w.relations, end,
                                       SubSeq(data, prev_size + 1, new_size))

\* drain(start..end)
drain(buf, rels, start, end) == remove_disabling(buf, rels, start, end - start)

\* The bytes the inner mutator hands to resize / extend / splice, the byte it
\* stores through bytes_mut, and the lengths of the ranges it replaces or drains.
MutatorBytes == {0}
SpliceData  == WriteData
SpliceSizes == {1, 2}
DrainSizes  == {1}

MutateNames == {"bytes_mut", "resize", "extend", "splice", "drain"}

\* WrappedMutator::mutate when the inner mutator reports Mutated: the primitive
\* it called, then sanitize.
Mutated(call, res) ==
    Outcome(call, res.panics \/ ~sanitize_in_bounds(res.raw, res.relations),
            sanitize(res.raw, res.relations), res.relations)

MutateBytes ==
    /\ CanEdit
    /\ \E idx \in 0..(Len(raw) - 1) : \E b \in MutatorBytes :
         Mutated(Call("bytes_mut", idx, <<b>>, 1, TRUE),
                 bytes_mut(raw, relations, idx, b))

MutateResize ==
    /\ CanEdit
    /\ \/ /\ Len(raw) + 1 <= MaxLen
          /\ \E insert_pos \in insertion_points(raw, relations) : \E b \in MutatorBytes :
               Mutated(Call("resize", insert_pos, <<b>>, 1, TRUE),
                       resize_grow(raw, relations, insert_pos, <<b>>))
       \/ /\ Len(raw) >= 1
          /\ Mutated(Call("resize", Len(raw) - 1, << >>, 1, TRUE),
                     resize_shrink(raw, relations, Len(raw) - 1))

MutateExtend ==
    /\ CanEdit
    /\ \E data \in InsertData :
         /\ Len(raw) + Len(data) <= MaxLen
         /\ Mutated(Call("extend", Len(raw), data, Len(data), TRUE),
                    extend(raw, relations, data))

MutateSplice ==
    /\ CanEdit
    /\ \E data \in SpliceData : \E size \in SpliceSizes : \E start \in 0..Len(raw) :
         /\ start + size <= Len(raw)
         /\ Len(raw) - size + Len(data) <= MaxLen
         /\ Mutated(Call("splice", start, data, size, TRUE),
                    splice_input(raw, relations, start, start + size, data))

MutateDrain ==
    /\ CanEdit
    /\ \E size \in DrainSizes : \E start \in 0..Len(raw) :
         /\ start + size <= Len(raw)
         /\ Mutated(Call("drain", start, << >>, size, TRUE),
                    drain(raw, relations, start, start + size))

\* WrappedMutator::mutate when the inner mutator reports Skipped: it returns
\* before sanitize.  A mutator that skips has not touched the input.
MutateSkipped ==
    /\ CanEdit
    /\ Outcome(Call("skipped", 0, << >>, 0, TRUE), FALSE, raw, relations)

Next ==
    \/ SearchStart
    \/ SearchNoCommit
    \/ SearchCommit
    \/ SearchPassEnd
    \/ Unsearched
    \/ Write
    \/ Insert
    \/ Remove
    \/ InsertDisabling
    \/ RemoveDisabling
    \/ MutateBytes
    \/ MutateResize
    \/ MutateExtend
    \/ MutateSplice
    \/ MutateDrain
    \/ MutateSkipped

Spec == Init /\ [][Next]_vars

---------------------------------------------------------------------------
(* One Relation on its own: Relation::new, then on_insert / on_remove calls *)
(* (the unit tests of structured.rs 368-617 drive a relation this way).     *)

\* The relations the calls start from.  Every one has anchor <= insert.
\* tests::test_oob_relation
RelOob     == Relation_new(0, u64(48), 1, TRUE, 0, 1)
\* A length field right before the range it governs (tests::test_insert_size1),
\* big-endian.
RelLength  == Relation_new(1, u64(2), 2, FALSE, 3, 5)
\* An offset-from-start field inside the range it governs (tests::test_insert_offset).
RelOffset  == Relation_new(2, u64(6), 2, TRUE, 0, 6)
\* An offset-from-start field one byte from the maximum of its width.
RelOffMax  == Relation_new(0, u64(254), 1, TRUE, 0, 254)
\* A field behind the range it governs.
RelBehind  == Relation_new(6, u64(2), 1, TRUE, 1, 3)
\* A field with a gap before its range (tests::test_insert_size2).
RelGap     == Relation_new(0, u64(2), 4, TRUE, 5, 7)
\* Fields holding the maximum of their width.
RelMax2    == Relation_new(0, max_val(2), 2, TRUE, 2, 65537)
RelMax3    == Relation_new(0, max_val(3), 3, FALSE, 3, 8)
RelMax4    == Relation_new(0, max_val(4), 4, TRUE, 4, 8)
RelMax8    == Relation_new(0, max_val(8), 8, TRUE, 8, 8)
\* An 8-byte field far from its maximum.
RelWide    == Relation_new(0, u64(0), 8, FALSE, 8, 8)

RelBases == { RelOob, RelLength, RelOffset, RelOffMax, RelBehind, RelGap,
              RelMax2, RelMax3, RelMax4, RelMax8, RelWide }

\* The byte counts of the calls: one byte, and the two of tests::test_oob_relation.
Counts == {1, 64, 240}

RelInit ==
    /\ raw = << >>
    /\ relations \in { <<r>> : r \in RelBases }
    /\ phase = "relation"
    /\ origin = "new"
    /\ op = NoOp
    /\ prev = [raw |-> raw, relations |-> relations]
    /\ failed = FALSE
    /\ nedits = 0
    /\ search = NoSearch
    /\ ctx = NoContext
    /\ corpus = NoCorpus
    /\ stage = NoStage

CanCall == phase = "relation" /\ nedits < MaxCalls

\* rel.on_insert(idx, n).  Where value + n does not fit 64 bits the build
\* decides: the addition wraps, or the call panics.
RelOnInsert ==
    /\ CanCall
    /\ \E idx \in 0..MaxIdx : \E n \in Counts :
         LET r    == relations[1]
             res  == Relation_on_insert(r, idx, n)
             over == /\ ~(idx > r.pos /\ idx < r.pos + r.size)
                     /\ idx >= r.anchor /\ idx <= r.insert
                     /\ u64_add_overflows(r.value, n)
         IN  \/ Outcome(Call("on_insert", idx, << >>, n, res.ok), FALSE, raw, <<res.rel>>)
             \/ /\ over
                /\ Outcome(Call("on_insert", idx, << >>, n, FALSE), TRUE, raw, relations)

\* rel.on_remove(idx, n)
RelOnRemove ==
    /\ CanCall
    /\ \E idx \in 0..MaxIdx : \E n \in Counts :
         LET res == Relation_on_remove(relations[1], idx, n)
         IN  Outcome(Call("on_remove", idx, << >>, n, res.ok), FALSE, raw, <<res.rel>>)

RelNext ==
    \/ RelOnInsert
    \/ RelOnRemove

RelSpec == RelInit /\ [][RelNext]_vars

---------------------------------------------------------------------------
(* Relation::apply on its own: a relation of any supported width and       *)
(* endianness, with a value that fits the width, applied to a buffer.      *)

\* The buffer apply writes into.
ApplyBuffer == <<170, 171, 172, 173, 174, 175, 176, 177, 178, 179>>

\* Values that fit a field of `size` bytes: 0, 1, the largest, and one whose
\* bytes are all different (1, 2, ..., size from the least significant).
fitting_values(size) ==
    { u64(0), u64(1), max_val(size), [k \in 1..8 |-> IF k <= size THEN k ELSE 0] }

ApplyInit ==
    /\ raw = ApplyBuffer
    /\ \E size \in Sizes : \E le \in BOOLEAN : \E pos \in 0..MaxPos :
         \E value \in fitting_values(size) :
            relations = << Relation_new(pos, value, size, le, pos + size, pos + size) >>
    /\ phase = "apply"
    /\ origin = "new"
    /\ op = NoOp
    /\ prev = [raw |-> raw, relations |-> relations]
    /\ failed = FALSE
    /\ nedits = 0
    /\ search = NoSearch
    /\ ctx = NoContext
    /\ corpus = NoCorpus
    /\ stage = NoStage

\* rel.apply(&mut buf): panics (index out of bounds) when the field does not
\* lie in the buffer.
Apply ==
    /\ phase = "apply"
    /\ nedits = 0
    /\ LET r == relations[1]
       IN  Outcome(Call("apply", r.pos, << >>, r.size, TRUE),
                   ~Relation_apply_in_bounds(r, raw),
                   Relation_apply(r, raw), relations)

ApplyNext ==
    \/ Apply

ApplySpec == ApplyInit /\ [][ApplyNext]_vars

---------------------------------------------------------------------------
(* The search against a given oracle (search.rs 61-126, 158-404).  The     *)
(* oracle is the caller's `FnMut(&[u8]) -> &[u8]`: a pure function from a   *)
(* buffer to a coverage map.  The oracles below are the hand-written ones   *)
(* of the search scenarios; a coverage map is a sequence of MapSize bytes,  *)
(* index idx (0-based) at position idx + 1.                                 *)

\* Executes index i iff the i-th byte of the window buf[2 .. 2+buf[1]] is
\* 0x41; a window that does not lie in the buffer executes nothing.
window_oracle(buf) ==
    [ k \in 1..MapSize |->
        IF /\ Len(buf) >= 2
           /\ 2 + buf[2] <= Len(buf)
           /\ k - 1 < buf[2]
           /\ buf[2 + k] = 65
        THEN 1 ELSE 0 ]

\* The same oracle reading the window clipped to the buffer.
window_clipped_oracle(buf) ==
    [ k \in 1..MapSize |->
        IF /\ Len(buf) >= 2
           /\ k - 1 < buf[2]
           /\ 2 + k <= Len(buf)
           /\ buf[2 + k] = 65
        THEN 1 ELSE 0 ]

\* The 2-byte length at offset 0 as the oracle declared_oracle(le, _) reads it.
declared_length(le, buf) ==
    IF le THEN buf[1] + 256 * buf[2] ELSE 256 * buf[1] + buf[2]

\* Executes index k iff buf[2+k] is within the declared length; a declared
\* length that runs past the buffer executes nothing.
declared_oracle(le, buf) ==
    [ k \in 1..MapSize |->
        IF /\ Len(buf) >= 2
           /\ 2 + declared_length(le, buf) <= Len(buf)
           /\ k - 1 < declared_length(le, buf)
        THEN 1 ELSE 0 ]

\* The offsets of the payload bytes of a sequence of chunks, each a 1-byte
\* length followed by that many bytes, parsed from offset p; "bad" when a
\* chunk runs past the buffer.
RECURSIVE chunk_payload(_, _)
chunk_payload(buf, p) ==
    IF p >= Len(buf) THEN [ok |-> TRUE, bytes |-> {}]
    ELSE LET n    == buf[p + 1]
             rest == chunk_payload(buf, p + 1 + n)
         IN  IF p + 1 + n > Len(buf) THEN [ok |-> FALSE, bytes |-> {}]
             ELSE [ok |-> rest.ok, bytes |-> (p + 1)..(p + n) \cup rest.bytes]

\* Executes index k iff the buffer parses as chunks and byte k is payload.
chunks_oracle(buf) ==
    LET parsed == chunk_payload(buf, 0)
    IN  [ k \in 1..MapSize |->
            IF parsed.ok /\ (k - 1) \in parsed.bytes THEN 1 ELSE 0 ]

\* The 4-byte little-endian number at offset p of the buffer as an oracle
\* reads it, or Len(buf) when it is that large or the field is cut short.
offset_at(buf, p) ==
    IF p + 4 > Len(buf) THEN Len(buf)
    ELSE IF buf[p + 3] # 0 \/ buf[p + 4] # 0 THEN Len(buf)
    ELSE IF buf[p + 1] + 256 * buf[p + 2] > Len(buf) THEN Len(buf)
    ELSE buf[p + 1] + 256 * buf[p + 2]

\* Two offsets and the markers they point at: executes index 0 iff the byte
\* at 4 + (the number at 0) is 'Q', index 1 iff the byte at 5 + (the number
\* at 7) is 'Z'.
markers_oracle(buf) ==
    [ k \in 1..MapSize |->
        IF k = 1
        THEN (IF 4 + offset_at(buf, 0) < Len(buf) /\ buf[4 + offset_at(buf, 0) + 1] = 81
              THEN 1 ELSE 0)
        ELSE IF k = 2
        THEN (IF 5 + offset_at(buf, 7) < Len(buf) /\ buf[5 + offset_at(buf, 7) + 1] = 90
              THEN 1 ELSE 0)
        ELSE 0 ]

\* Reads a 2-byte little-endian count n at offset 2 and executes index k < n
\* iff buf[k] is 0x41; a count beyond the buffer executes nothing.
prefix_oracle(buf) ==
    [ k \in 1..MapSize |->
        IF /\ Len(buf) >= 4
           /\ buf[3] + 256 * buf[4] <= Len(buf)
           /\ k - 1 < buf[3] + 256 * buf[4]
           /\ buf[k] = 65
        THEN 1 ELSE 0 ]

\* A target that reads a container: byte 0 declares the length of everything
\* after it, byte 1 the length of the body after it.  Index 0 always executes,
\* index 1 when the body fits in the buffer, index 2 when the container length
\* agrees with the body length, and index 3 + j for body byte j.
nested_oracle(buf) ==
    [ k \in 1..MapSize |->
        IF k = 1 THEN 1
        ELSE IF Len(buf) < 2 \/ 2 + buf[2] > Len(buf) THEN 0
        ELSE IF k = 2 THEN 1
        ELSE IF k = 3 THEN (IF buf[1] = 1 + buf[2] THEN 1 ELSE 0)
        ELSE IF k - 4 < buf[2] THEN 1 ELSE 0 ]

\* Coverage that does not depend on the input: nothing, everything, a pattern.
constant_oracle(name) ==
    [ k \in 1..MapSize |->
        IF name = "zeros" THEN 0
        ELSE IF name = "ones" THEN 1
        ELSE k % 2 ]

ConstantOracles == {"zeros", "ones", "pattern"}
OracleNames == {"window", "window_clipped", "declared_be", "declared_le", "chunks",
                "markers", "prefix", "nested"}
                   \cup ConstantOracles

\* self.test(data): one call of the oracle.
test(name, data) ==
    CASE name = "window"         -> window_oracle(data)
      [] name = "window_clipped" -> window_clipped_oracle(data)
      [] name = "declared_be"    -> declared_oracle(FALSE, data)
      [] name = "declared_le"    -> declared_oracle(TRUE, data)
      [] name = "chunks"         -> chunks_oracle(data)
      [] name = "markers"        -> markers_oracle(data)
      [] name = "prefix"         -> prefix_oracle(data)
      [] name = "nested"         -> nested_oracle(data)
      [] OTHER                   -> constant_oracle(name)

\* SearchOptions::default() (search.rs 28-38).  loss_threshold and
\* recover_threshold are f64 fractions, kept here in hundredths.
default_options ==
    [max_iters |-> max_iters, loss_threshold |-> 5, recover_threshold |-> 20]

\* ceil(a / b) for naturals, b > 0.
ceil_div(a, b) == (a + b - 1) \div b

\* SearchContext::new (search.rs 61-99): the coverage of the seed, the coverage
\* of the empty input, the focus indices and the loss threshold.  With at most
\* MapSize focus indices the product 0.05 * n is below 1, and the other
\* fractions used (0, 0.5, 1) are exact in f64, so the ceiling is the
\* rational one.
SearchContext_new(seed, name, options) ==
    LET seed_cov     == test(name, seed)
        seed_indices == {idx \in 0..(MapSize - 1) : seed_cov[idx + 1] # 0}
        base_cov     == test(name, << >>)
        focus        == {idx \in seed_indices : base_cov[idx + 1] = 0}
        ceiled       == ceil_div(options.loss_threshold * Cardinality(focus), 100)
    IN  [ oracle |-> name, options |-> options, focus_indices |-> focus,
          loss_threshold |-> IF ceiled > 1 THEN ceiled ELSE 1, test_count |-> 0 ]

\* The oracle's calls and the engine's reads of the slices they return, in
\* program order.  Every slice is a view of the one shared map: slice k is
\* the one returned by the k-th call of the trace.
oracle_call(data) == [kind |-> "call", data |-> data, slice |-> 0]
slice_read(k)     == [kind |-> "read", data |-> << >>, slice |-> k]

\* SearchContext::new with the loop over seed_cov put off until base_cov is
\* there.
new_trace_deferred(seed) ==
    << oracle_call(seed), oracle_call(<< >>), slice_read(1), slice_read(2) >>

\* SearchContext::new (search.rs 63-81): the seed is run and seed_cov is read
\* into seed_indices, then the empty input is run and base_cov is read.
new_trace(seed) ==
    << oracle_call(seed), slice_read(1), oracle_call(<< >>), slice_read(2) >>

\* One candidate of find_relations_inner that hands `tests` buffers to
\* self.test (search.rs 253-258, 377-392): each call is followed by the loop
\* that reads its slice.  The buffers themselves are those of lost_indices
\* and check_anchor.
probe_trace(tests) ==
    [p \in 1..(2 * tests) |->
        IF p % 2 = 1 THEN oracle_call(<< >>) ELSE slice_read(p \div 2)]

\* What the shared map holds at place p of a trace: the coverage of the last
\* call before p, whichever slice it is read through.
shared_map(name, trace, p) ==
    LET calls == {q \in 1..(p - 1) : trace[q].kind = "call"}
        last  == CHOOSE q \in calls : \A o \in calls : o <= q
    IN  test(name, trace[last].data)

\* lost_indices counting every index of the map the corrupted buffer misses,
\* in focus or not.
lost_indices_any_index(c, seed, i, t) ==
    LET size  == rel_types[t].size
        curr  == u64_low(from_bytes(seed, i, size, rel_types[t].le))
        shift == shift_amount(size, curr)
        corrupt == [potential(seed, i, t, 0) EXCEPT !.value = u64(curr + shift)]
        ft    == test(c.oracle, Relation_apply(corrupt, seed))
    IN  {idx \in 0..(MapSize - 1) : ft[idx + 1] = 0}

\* The corrupted field of a candidate and the focus indices it loses
\* (search.rs 245-258).
lost_indices(c, seed, i, t) ==
    LET size  == rel_types[t].size
        curr  == u64_low(from_bytes(seed, i, size, rel_types[t].le))
        shift == shift_amount(size, curr)
        corrupt == [potential(seed, i, t, 0) EXCEPT !.value = u64(curr + shift)]
        ft    == test(c.oracle, Relation_apply(corrupt, seed))
    IN  {idx \in c.focus_indices : ft[idx + 1] = 0}

\* What check_anchor has decided so far for one candidate: the best recovered
\* ratio (curr_recover, a fraction num / den), the anchors visited, the
\* accepted anchor (matched = FALSE stands for insert = usize::MAX) and the
\* number of buffers handed to self.test.
no_match(options) ==
    [ num |-> options.recover_threshold, den |-> 100, visited |-> {},
      matched |-> FALSE, anchor |-> 0, insert |-> 0, tests |-> 0 ]

\* check_anchor accepting an anchor only when it recovers strictly more than
\* the best so far, so that the first of equally good anchors is kept.
check_anchor_keeps_first(c, seed, saved, i, t, lost, anchor, st) ==
    LET size  == rel_types[t].size
        curr  == u64_low(from_bytes(seed, i, size, rel_types[t].le))
        shift == shift_amount(size, curr)
        ins   == anchor + curr
        moved == Structured_on_insert(saved, ins, shift)
        seen  == [st EXCEPT !.visited = @ \cup {anchor}]
        tested == [seen EXCEPT !.tests = @ + 1]
        ft    == test(c.oracle, scratch_buffer(seed, seed, moved.relations, i, t, anchor))
        recovered == Cardinality({idx \in lost : ft[idx + 1] # 0})
    IN  IF ins > Len(seed) THEN st
        ELSE IF anchor >= Len(seed) \/ anchor \in st.visited THEN st
        ELSE IF ~moved.ok THEN seen
        ELSE IF /\ Cardinality(lost) > 0
                /\ IF st.matched
                   THEN recovered * st.den > st.num * Cardinality(lost)
                   ELSE recovered * st.den >= st.num * Cardinality(lost)
             THEN [tested EXCEPT !.matched = TRUE, !.anchor = anchor, !.insert = ins,
                                 !.num = recovered, !.den = Cardinality(lost)]
             ELSE tested

\* check_anchor (search.rs 335-404) for the candidate (i, t) of the seed and
\* one anchor: what it decides.  `saved` is input.relations and `seed` is
\* test_buffer as the call finds them; what the call leaves in the two is
\* check_anchor_leaves.
check_anchor(c, seed, saved, i, t, lost, anchor, st) ==
    LET size  == rel_types[t].size
        curr  == u64_low(from_bytes(seed, i, size, rel_types[t].le))
        shift == shift_amount(size, curr)
        ins   == anchor + curr
        moved == Structured_on_insert(saved, ins, shift)
        seen  == [st EXCEPT !.visited = @ \cup {anchor}]
        tested == [seen EXCEPT !.tests = @ + 1]
        ft    == test(c.oracle, scratch_buffer(seed, seed, moved.relations, i, t, anchor))
        recovered == Cardinality({idx \in lost : ft[idx + 1] # 0})
    IN  IF ins > Len(seed) THEN st
        ELSE IF anchor >= Len(seed) \/ anchor \in st.visited THEN st
        ELSE IF ~moved.ok THEN seen
        ELSE IF /\ Cardinality(lost) > 0       \* 0 / 0 is NaN, which is >= nothing
                /\ recovered * st.den >= st.num * Cardinality(lost)
             THEN [tested EXCEPT !.matched = TRUE, !.anchor = anchor, !.insert = ins,
                                 !.num = recovered, !.den = Cardinality(lost)]
             ELSE tested

\* check_anchor over a list of anchors, in order.
RECURSIVE check_anchors(_, _, _, _, _, _, _, _)
check_anchors(c, seed, saved, i, t, lost, anchors, st) ==
    IF anchors = << >> THEN st
    ELSE check_anchors(c, seed, saved, i, t, lost, Tail(anchors),
                       check_anchor(c, seed, saved, i, t, lost, Head(anchors), st))

\* The anchors the loop over inflection_points (search.rs 302-306) can leave
\* accepted.  The points are a HashSet, visited in an order the build does
\* not fix; each accepted anchor raises curr_recover to its own ratio, so the
\* anchor left is any of those with the greatest accepted ratio.
inflection_matches(c, seed, saved, i, t, lost, st) ==
    LET tried(a) == check_anchor(c, seed, saved, i, t, lost, a, st)
        points   == inflection_points(saved)
        accepted == {a \in points : tried(a).matched}
        tests    == st.tests + Cardinality({a \in points : tried(a).tests > st.tests})
    IN  IF accepted = {} THEN { [st EXCEPT !.tests = tests] }
        ELSE { [tried(a) EXCEPT !.tests = tests] :
                   a \in {b \in accepted :
                             \A o \in accepted : tried(o).num <= tried(b).num} }

\* probe going on to the anchors whatever the corrupted field lost.
probe_ungated(c, seed, rels, i, t) ==
    LET size  == rel_types[t].size
        saved == save_relations(rels)
        lost  == lost_indices(c, seed, i, t)
        local == check_anchors(c, seed, saved, i, t, lost,
                               local_anchors(i, size), no_match(c.options))
        final == IF size <= 2 \/ local.matched THEN {local}
                 ELSE inflection_matches(c, seed, saved, i, t, lost, local)
    IN  { [commit |-> st.matched, rel |-> potential(seed, i, t, st.anchor),
           tests |-> 1 + st.tests] : st \in final }

\* One candidate of find_relations_inner (search.rs 231-315): what the probe
\* of the candidate (i, t) can end with: whether a relation is committed,
\* which, and the number of buffers it handed to self.test (the corrupted
\* seed, then one per anchor tested).
probe(c, seed, rels, i, t) ==
    LET size  == rel_types[t].size
        saved == save_relations(rels)
        lost  == lost_indices(c, seed, i, t)
        local == check_anchors(c, seed, saved, i, t, lost,
                               local_anchors(i, size), no_match(c.options))
        final == IF size <= 2 \/ local.matched THEN {local}
                 ELSE inflection_matches(c, seed, saved, i, t, lost, local)
    IN  IF Cardinality(lost) < c.loss_threshold
        THEN { [commit |-> FALSE, rel |-> potential(seed, i, t, 0), tests |-> 1] }
        ELSE { [commit |-> st.matched, rel |-> potential(seed, i, t, st.anchor),
                tests |-> 1 + st.tests] : st \in final }

\* What the probe of the candidate (i, t) leaves in input.relations and
\* test_buffer: the anchors are reached when the loss passes the threshold
\* (search.rs 266), the inflection points when no local anchor matched
\* (search.rs 302).
probe_leaves(c, seed, rels, test_buffer, i, t) ==
    LET size  == rel_types[t].size
        lost  == lost_indices(c, seed, i, t)
        local == check_anchors(c, seed, save_relations(rels), i, t, lost,
                               local_anchors(i, size), no_match(c.options))
    IN  candidate_leaves(seed, rels, test_buffer, i, t,
                         Cardinality(lost) >= c.loss_threshold, ~local.matched)

\* The scenario seeds: a 2-byte length 8 at offset 0, eight 'A', four 'B',
\* big-endian and little-endian; two chunks, each a 1-byte length and its bytes.
SeedBE == <<0, 8, 65, 65, 65, 65, 65, 65, 65, 65, 66, 66, 66, 66>>
SeedLE == <<8, 0, 65, 65, 65, 65, 65, 65, 65, 65, 66, 66, 66, 66>>
SeedChunks == <<2, 65, 65, 3, 66, 66, 66>>
\* Two 4-byte little-endian offsets, at 0 and at 7, and the bytes they point at.
SeedMarkers == <<1, 0, 0, 0, 80, 81, 255, 6, 0, 0, 0, 90>>
\* Two 'A', the 2-byte little-endian count of the bytes before it, two 'B'.
SeedPrefix == <<65, 65, 2, 0, 66, 66>>
\* A container of three bytes holding a body of two.
SeedNested == <<3, 2, 66, 66>>
OracleSeeds == Seeds \cup {SeedBE, SeedLE, SeedChunks, SeedMarkers, SeedPrefix, SeedNested}

\* The option settings searched with: the defaults and the corners.
OptionSettings ==
    { [max_iters |-> m, loss_threshold |-> l, recover_threshold |-> r] :
        m \in {0, 1, max_iters}, l \in {0, 5, 50, 100}, r \in {0, 20, 100} }

\* The arguments of SearchContext::search before the context is built.
no_context(name, options) ==
    [oracle |-> name, options |-> options, focus_indices |-> {},
     loss_threshold |-> 0, test_count |-> 0]

\* A raw seed, an oracle and an option setting: SearchContext::search is
\* about to be called.
OracleInit ==
    /\ raw \in OracleSeeds
    /\ relations = << >>
    /\ origin = "raw"
    /\ phase = "new"
    /\ op = NoOp
    /\ prev = [raw |-> raw, relations |-> relations]
    /\ failed = FALSE
    /\ nedits = 0
    /\ search = NoSearch
    /\ \E name \in OracleNames, options \in OptionSettings :
          ctx = no_context(name, options)
    /\ corpus = NoCorpus
    /\ stage = NoStage

\* SearchContext::search up to the first pass: the context is built, the
\* testcase is cloned, and find_relations enters its loop if max_iters allows.
search_start ==
    /\ phase = "new"
    /\ ctx' = SearchContext_new(raw, ctx.oracle, ctx.options)
    /\ origin' = "search"
    /\ IF ctx.options.max_iters > 0
       THEN /\ phase' = "search"
            /\ search' = [iter |-> 1, c |-> next_candidate(raw, relations, FirstCursor),
                          found |-> FALSE, test_buffer |-> raw]
       ELSE /\ phase' = "ready"
            /\ search' = NoSearch
    /\ UNCHANGED <<raw, relations, op, prev, failed, nedits>>

\* The candidate under the cursor is probed and nothing is committed.
probe_miss ==
    /\ phase = "search"
    /\ search.c.i < Len(raw)
    /\ \E out \in probe(ctx, raw, relations, search.c.i, search.c.t) :
          /\ ~out.commit
          /\ ctx' = [ctx EXCEPT !.test_count = @ + out.tests]
    /\ \E left \in probe_leaves(ctx, raw, relations, search.test_buffer,
                                 search.c.i, search.c.t) :
          /\ relations' = left.relations
          /\ search' = [search EXCEPT
                           !.c = next_candidate(raw, relations', cursor_next(search.c)),
                           !.test_buffer = left.test_buffer]
    /\ UNCHANGED <<raw, phase, origin, op, prev, failed, nedits>>

\* The candidate under the cursor is probed and committed with the anchor
\* check_anchor accepted.
probe_commit ==
    /\ phase = "search"
    /\ search.c.i < Len(raw)
    /\ \E out \in probe(ctx, raw, relations, search.c.i, search.c.t) :
          /\ out.commit
          /\ ctx' = [ctx EXCEPT !.test_count = @ + out.tests]
          /\ \E left \in probe_leaves(ctx, raw, relations, search.test_buffer,
                                       search.c.i, search.c.t) :
                /\ relations' = Append(left.relations, out.rel)
                /\ search' = [search EXCEPT
                                 !.c = next_candidate(raw, relations', cursor_next(search.c)),
                                 !.found = TRUE,
                                 !.test_buffer = left.test_buffer]
    /\ UNCHANGED <<raw, phase, origin, op, prev, failed, nedits>>

\* pass_end starting another pass whenever the last one committed something,
\* without the bound max_iters.
pass_end_unbounded ==
    /\ phase = "search"
    /\ search.c.i >= Len(raw)
    /\ IF search.found
       THEN /\ search' = [iter |-> search.iter + 1,
                          c |-> next_candidate(raw, relations, FirstCursor),
                          found |-> FALSE, test_buffer |-> raw]
            /\ phase' = phase
       ELSE /\ search' = NoSearch
            /\ phase' = "ready"
    /\ UNCHANGED <<raw, relations, origin, op, prev, failed, nedits, ctx>>

\* The pass is over (search.rs 138-147): another pass, or the search returns.
pass_end ==
    /\ phase = "search"
    /\ search.c.i >= Len(raw)
    /\ IF search.found /\ search.iter < ctx.options.max_iters
       THEN /\ search' = [iter |-> search.iter + 1,
                          c |-> next_candidate(raw, relations, FirstCursor),
                          found |-> FALSE, test_buffer |-> raw]
            /\ phase' = phase
       ELSE /\ search' = NoSearch
            /\ phase' = "ready"
    /\ UNCHANGED <<raw, relations, origin, op, prev, failed, nedits, ctx>>

\* The search called on its own, outside the stage.
OracleSearchStart == search_start /\ UNCHANGED <<corpus, stage>>
OracleProbeMiss   == probe_miss   /\ UNCHANGED <<corpus, stage>>
OracleProbeCommit == probe_commit /\ UNCHANGED <<corpus, stage>>
OraclePassEnd     == pass_end     /\ UNCHANGED <<corpus, stage>>

OracleNext ==
    \/ OracleSearchStart
    \/ OracleProbeMiss
    \/ OracleProbeCommit
    \/ OraclePassEnd

OracleSpec == OracleInit /\ [][OracleNext]_vars

\* The search is one sequential loop in one thread and every call of the
\* oracle returns: a step that can be taken is taken.  The loop's own steps
\* are enabled exactly in phase "search" (a candidate under the cursor has a
\* probe outcome, the end of a pass has a successor), and their weak fairness
\* is written with that condition spelled out.  Every step of the loop moves
\* the cursor or ends the pass, and nothing else changes `search` in phase
\* "search": a step of the loop is a step that changes `search` there.
OracleLoop == OracleProbeMiss \/ OracleProbeCommit \/ OraclePassEnd
OracleLoopTaken == phase = "search" /\ search' # search
OracleFairSpec ==
    /\ OracleSpec
    /\ WF_vars(OracleSearchStart)
    /\ ([]<>(phase # "search") \/ []<><<OracleLoopTaken>>_vars)

---------------------------------------------------------------------------
(* SearchStage::perform (search_stage.rs 88-195) over a corpus whose       *)
(* entries carry an InputStatus (structured_input.rs 49-62).  The oracle    *)
(* of the stage runs the target in process (get_coverage_slice); a call     *)
(* that crashes or times out ends the process, and the fuzzer restarts with *)
(* the corpus as it was stored at that moment.  The search itself is the    *)
(* one above: raw and relations are the clone the engine works on.          *)

\* InputStatus.
Status_New         == [tag |-> "New", id |-> 0]
Status_Mutated     == [tag |-> "Mutated", id |-> 0]
Status_InProgress  == [tag |-> "InProgress", id |-> 0]
Status_Searched(id) == [tag |-> "Searched", id |-> id]

\* The corpus ids of the model and the seed each entry was made from.
CorpusIds == {0, 1}
entry_seed(id) == IF id = 0 THEN SeedA ELSE SeedB

InputStatuses ==
    {Status_New, Status_Mutated, Status_InProgress} \cup {Status_Searched(id) : id \in CorpusIds}

\* A StructuredInput: the Structured and its status.
StructuredInput(buf, rels, status) ==
    [input |-> [raw |-> buf, relations |-> rels], status |-> status]

\* SearchMetadata::new().
SearchMetadata_new == [num_searched |-> 0, num_found |-> 0, search_tests |-> 0]

\* The stage between two calls of perform.
stage_idle(performs, searches, metadata) ==
    [ pc |-> "idle", idx |-> 0, performs |-> performs, result |-> "none",
      oracle_calls |-> 0, searches |-> searches, metadata |-> metadata ]

\* will_search that searches an InProgress entry again.
will_search_retries(status, corpus_idx) ==
    CASE status.tag = "Searched"   -> status.id # corpus_idx
      [] status.tag = "New"        -> TRUE
      [] status.tag = "Mutated"    -> TRUE
      [] status.tag = "InProgress" -> TRUE

\* will_search that searches every Searched entry again, its own id or not.
will_search_researches(status, corpus_idx) ==
    CASE status.tag = "Searched"   -> TRUE
      [] status.tag = "New"        -> TRUE
      [] status.tag = "Mutated"    -> TRUE
      [] status.tag = "InProgress" -> FALSE

\* will_search (search_stage.rs 101-114).
will_search(status, corpus_idx) ==
    CASE status.tag = "Searched"   -> status.id # corpus_idx
      [] status.tag = "New"        -> TRUE
      [] status.tag = "Mutated"    -> TRUE
      [] status.tag = "InProgress" -> FALSE

\* No clone of a testcase is being searched.
no_testcase ==
    /\ raw' = << >>
    /\ relations' = << >>
    /\ phase' = "idle"
    /\ origin' = "corpus"
    /\ prev' = [raw |-> << >>, relations |-> << >>]
    /\ search' = NoSearch
    /\ ctx' = no_context(ctx.oracle, ctx.options)
    /\ UNCHANGED <<op, failed, nedits>>

\* The relation lists an entry can carry when the stage first sees it: none,
\* or, for the entry whose bytes start with a 2-byte length, the relation of
\* that field (an entry cloned from a searched one, or loaded with its
\* sidecar).
entry_relations(id) == IF id = 0 THEN { << >> } ELSE { << >>, << RelHead >> }

\* A corpus of entries in any status, the stage's options, no perform made yet.
StageInit ==
    /\ raw = << >>
    /\ relations = << >>
    /\ phase = "idle"
    /\ origin = "corpus"
    /\ op = NoOp
    /\ prev = [raw |-> << >>, relations |-> << >>]
    /\ failed = FALSE
    /\ nedits = 0
    /\ search = NoSearch
    /\ ctx = no_context("window", default_options)
    /\ \E statuses \in [CorpusIds -> InputStatuses] :
          \E rels \in [CorpusIds -> UNION {entry_relations(id) : id \in CorpusIds}] :
             /\ \A id \in CorpusIds : rels[id] \in entry_relations(id)
             /\ corpus = [id \in CorpusIds |->
                             StructuredInput(entry_seed(id), rels[id], statuses[id])]
    /\ stage = stage_idle(0, [id \in CorpusIds |-> 0], SearchMetadata_new)

\* perform with no current corpus entry (search_stage.rs 95): it returns
\* Err(Empty) and touches nothing.
PerformEmpty ==
    /\ stage.pc = "idle"
    /\ stage.performs < MaxPerforms
    /\ stage' = [stage EXCEPT !.performs = @ + 1, !.result = "empty",
                              !.oracle_calls = 0]
    /\ UNCHANGED <<raw, relations, phase, origin, op, prev, failed, nedits, search,
                   ctx, corpus>>

\* perform on an entry that is not searched (search_stage.rs 95-116): it
\* returns Ok(()) at once.
PerformSkip ==
    /\ stage.pc = "idle"
    /\ stage.performs < MaxPerforms
    /\ \E corpus_idx \in CorpusIds :
          /\ ~will_search(corpus[corpus_idx].status, corpus_idx)
          /\ stage' = [stage EXCEPT !.idx = corpus_idx, !.performs = @ + 1,
                                    !.result = "skipped", !.oracle_calls = 0]
    /\ UNCHANGED <<raw, relations, phase, origin, op, prev, failed, nedits, search,
                   ctx, corpus>>

\* A perform that starts the search without storing the entry as InProgress.
PerformBegin_unmarked ==
    /\ stage.pc = "idle"
    /\ stage.performs < MaxPerforms
    /\ \E corpus_idx \in CorpusIds :
          /\ will_search(corpus[corpus_idx].status, corpus_idx)
          /\ raw' = corpus[corpus_idx].input.raw
          /\ relations' = corpus[corpus_idx].input.relations
          /\ stage' = [stage EXCEPT !.pc = "search", !.idx = corpus_idx,
                                    !.performs = @ + 1, !.result = "running",
                                    !.oracle_calls = 0,
                                    !.searches[corpus_idx] = @ + 1]
    /\ prev' = [raw |-> raw', relations |-> relations']
    /\ phase' = "new"
    /\ UNCHANGED <<origin, op, failed, nedits, search, ctx, corpus>>

\* perform on an entry that is searched, up to the call of
\* SearchContext::search (search_stage.rs 95-130): the entry is stored with
\* status InProgress and its Structured is cloned for the engine.
PerformBegin ==
    /\ stage.pc = "idle"
    /\ stage.performs < MaxPerforms
    /\ \E corpus_idx \in CorpusIds :
          /\ will_search(corpus[corpus_idx].status, corpus_idx)
          /\ corpus' = [corpus EXCEPT ![corpus_idx].status = Status_InProgress]
          /\ raw' = corpus[corpus_idx].input.raw
          /\ relations' = corpus[corpus_idx].input.relations
          /\ stage' = [stage EXCEPT !.pc = "search", !.idx = corpus_idx,
                                    !.performs = @ + 1, !.result = "running",
                                    !.oracle_calls = 0,
                                    !.searches[corpus_idx] = @ + 1]
    /\ prev' = [raw |-> raw', relations |-> relations']
    /\ phase' = "new"
    /\ UNCHANGED <<origin, op, failed, nedits, search, ctx>>

\* The engine's steps inside perform, with the oracle calls each one makes:
\* two in SearchContext::new, then test_count.
StageSearchStart ==
    /\ stage.pc = "search"
    /\ search_start
    /\ stage' = [stage EXCEPT !.oracle_calls = @ + 2]
    /\ UNCHANGED corpus

StageProbeMiss ==
    /\ stage.pc = "search"
    /\ probe_miss
    /\ stage' = [stage EXCEPT !.oracle_calls = @ + (ctx'.test_count - ctx.test_count)]
    /\ UNCHANGED corpus

StageProbeCommit ==
    /\ stage.pc = "search"
    /\ probe_commit
    /\ stage' = [stage EXCEPT !.oracle_calls = @ + (ctx'.test_count - ctx.test_count)]
    /\ UNCHANGED corpus

StagePassEnd ==
    /\ stage.pc = "search"
    /\ pass_end
    /\ UNCHANGED <<corpus, stage>>

\* The next oracle call crashes or times out: the process ends inside the
\* call and the fuzzer restarts with the stored corpus and metadata.
OracleCrash ==
    /\ stage.pc = "search"
    /\ \/ phase = "new"
       \/ phase = "search" /\ search.c.i < Len(raw)
    /\ no_testcase
    /\ stage' = [stage EXCEPT !.pc = "idle", !.result = "crashed",
                              !.oracle_calls = @ + 1]
    /\ UNCHANGED corpus

\* The engine has returned (search_stage.rs 136-194): the entry is stored with
\* the result and status Searched(corpus_idx), the metadata is updated.
PerformStore ==
    /\ stage.pc = "search"
    /\ phase = "ready"
    /\ corpus' = [corpus EXCEPT ![stage.idx] =
                     StructuredInput(raw, relations, Status_Searched(stage.idx))]
    /\ stage' = [stage EXCEPT
                    !.pc = "idle", !.result = "ok",
                    !.metadata = [num_searched |-> @.num_searched + 1,
                                  num_found |-> @.num_found +
                                      (IF Len(relations) > 0 THEN 1 ELSE 0),
                                  search_tests |-> @.search_tests + ctx.test_count]]
    /\ no_testcase

StageNext ==
    \/ PerformEmpty
    \/ PerformSkip
    \/ PerformBegin
    \/ StageSearchStart
    \/ StageProbeMiss
    \/ StageProbeCommit
    \/ StagePassEnd
    \/ OracleCrash
    \/ PerformStore

StageSpec == StageInit /\ [][StageNext]_vars

---------------------------------------------------------------------------
(* Input::to_file / Input::from_file (structured_input.rs 71-113) on one    *)
(* path of the corpus directory: the file `<name>` with the raw bytes and   *)
(* the sidecar `.<name>.annotated` with the serde_json text of the          *)
(* Structured.  The text is a sequence of tokens: braces, brackets, keys,   *)
(* true / false, and numbers as their decimal digits.                       *)

MaxFileOps == 3

sym(s) == [k |-> "sym", s |-> s, n |-> << >>]
num(d) == [k |-> "num", s |-> "", n |-> d]

\* The decimal digits of a usize or u8, most significant first.
RECURSIVE to_dec(_)
to_dec(n) == IF n < 10 THEN << n >> ELSE Append(to_dec(n \div 10), n % 10)

\* The number a digit string of the modelled range stands for.
RECURSIVE from_dec(_)
from_dec(d) ==
    IF Len(d) = 1 THEN d[1]
    ELSE 10 * from_dec(SubSeq(d, 1, Len(d) - 1)) + d[Len(d)]

\* A u64 divided by ten: quotient and remainder, byte by byte from the top.
RECURSIVE u64_div10_from(_, _, _)
u64_div10_from(v, k, rem) ==
    IF k = 0 THEN [q |-> v, r |-> rem]
    ELSE u64_div10_from([v EXCEPT ![k] = (rem * 256 + v[k]) \div 10], k - 1,
                        (rem * 256 + v[k]) % 10)

\* The decimal digits of a u64, as serde_json prints it.
RECURSIVE u64_to_dec(_)
u64_to_dec(v) ==
    LET d == u64_div10_from(v, 8, 0)
    IN  IF \A k \in 1..8 : d.q[k] = 0 THEN << d.r >>
        ELSE Append(u64_to_dec(d.q), d.r)

\* v * 10 + carry, byte by byte from the bottom; what is left over does not
\* fit 64 bits.
RECURSIVE u64_mul10_from(_, _, _)
u64_mul10_from(v, k, carry) ==
    IF k > 8 THEN [v |-> v, overflow |-> carry # 0]
    ELSE u64_mul10_from([v EXCEPT ![k] = (v[k] * 10 + carry) % 256], k + 1,
                        (v[k] * 10 + carry) \div 256)

\* The u64 a digit string stands for; a number beyond 64 bits is an error.
RECURSIVE dec_to_u64_from(_, _, _)
dec_to_u64_from(d, k, acc) ==
    IF k > Len(d) THEN [ok |-> TRUE, v |-> acc]
    ELSE LET m == u64_mul10_from(acc, 1, d[k])
         IN  IF m.overflow THEN [ok |-> FALSE, v |-> acc]
             ELSE dec_to_u64_from(d, k + 1, m.v)
dec_to_u64(d) == dec_to_u64_from(d, 1, u64(0))

json_bool(b) == sym(IF b THEN "true" ELSE "false")

\* #[derive(Serialize)] of Relation (structured.rs 206-224): every field, in
\* the order of the struct.
relation_to_json(r) ==
    << sym("{"),
       sym("pos"), num(to_dec(r.pos)),
       sym("value"), num(u64_to_dec(r.value)),
       sym("size"), num(to_dec(r.size)),
       sym("le"), json_bool(r.le),
       sym("anchor"), num(to_dec(r.anchor)),
       sym("insert"), num(to_dec(r.insert)),
       sym("enabled"), json_bool(r.enabled),
       sym("old_pos"), num(to_dec(r.old_pos)),
       sym("old_anchor"), num(to_dec(r.old_anchor)),
       sym("old_insert"), num(to_dec(r.old_insert)),
       sym("old_value"), num(u64_to_dec(r.old_value)),
       sym("}") >>

RelationTokens == 24

RECURSIVE relations_to_json(_)
relations_to_json(rels) ==
    IF rels = << >> THEN << >>
    ELSE relation_to_json(Head(rels)) \o relations_to_json(Tail(rels))

\* serde_json::to_string of a Structured that leaves the relations out.
to_json_raw_only(buf, rels) ==
    << sym("{"), sym("raw"), sym("[") >> \o [k \in 1..Len(buf) |-> num(to_dec(buf[k]))]
        \o << sym("]"), sym("relations"), sym("[") >> \o << sym("]"), sym("}") >>

\* serde_json::to_string(&self.input): #[derive(Serialize)] of Structured
\* (structured.rs 6-10).
to_json(buf, rels) ==
    << sym("{"), sym("raw"), sym("[") >> \o [k \in 1..Len(buf) |-> num(to_dec(buf[k]))]
        \o << sym("]"), sym("relations"), sym("[") >> \o relations_to_json(rels)
        \o << sym("]"), sym("}") >>

\* A JSON number: digits without a leading zero.  MaxDigits bounds the
\* numbers read as usize to the range of the model.
MaxDigits == 6
is_num(tok) ==
    /\ tok.k = "num"
    /\ Len(tok.n) >= 1
    /\ (Len(tok.n) = 1 \/ tok.n[1] # 0)
is_usize(tok) == is_num(tok) /\ Len(tok.n) <= MaxDigits
is_u8(tok)    == is_usize(tok) /\ from_dec(tok.n) <= 255
is_u64(tok)   == is_num(tok) /\ Len(tok.n) <= 20 /\ dec_to_u64(tok.n).ok
is_bool(tok)  == tok \in {sym("true"), sym("false")}

\* #[derive(Deserialize)] of Relation on the tokens text[at .. at + 23].
relation_from_json(text, at) ==
    LET tok(j) == text[at + j]
        keys == << "pos", "value", "size", "le", "anchor", "insert", "enabled",
                   "old_pos", "old_anchor", "old_insert", "old_value" >>
        ok == /\ tok(0) = sym("{")
              /\ tok(23) = sym("}")
              /\ \A f \in 1..11 : tok(2 * f - 1) = sym(keys[f])
              /\ \A f \in {1, 3, 5, 6, 8, 9, 10} : is_usize(tok(2 * f))
              /\ \A f \in {2, 11} : is_u64(tok(2 * f))
              /\ \A f \in {4, 7} : is_bool(tok(2 * f))
    IN  [ ok  |-> ok,
          rel |-> IF ~ok THEN Relation_new(0, u64(0), 1, TRUE, 0, 0)
                  ELSE [ pos |-> from_dec(tok(2).n),
                         value |-> dec_to_u64(tok(4).n).v,
                         size |-> from_dec(tok(6).n),
                         le |-> tok(8) = sym("true"),
                         anchor |-> from_dec(tok(10).n),
                         insert |-> from_dec(tok(12).n),
                         enabled |-> tok(14) = sym("true"),
                         old_pos |-> from_dec(tok(16).n),
                         old_anchor |-> from_dec(tok(18).n),
                         old_insert |-> from_dec(tok(20).n),
                         old_value |-> dec_to_u64(tok(22).n).v ] ]

\* serde_json::from_str::<Structured>: the text as to_string lays it out
\* (keys in the order of the struct); anything else is an error.
from_json(text) ==
    LET closes == {p \in 4..Len(text) : text[p] = sym("]")}
        close  == CHOOSE p \in closes : \A o \in closes : p <= o
        nrels  == (Len(text) - close - 4) \div RelationTokens
        parsed == [k \in 1..nrels |->
                      relation_from_json(text, close + 3 + (k - 1) * RelationTokens)]
        ok == /\ Len(text) >= 8
              /\ SubSeq(text, 1, 3) = << sym("{"), sym("raw"), sym("[") >>
              /\ closes # {}
              /\ \A p \in 4..(close - 1) : is_u8(text[p])
              /\ Len(text) >= close + 4
              /\ text[close + 1] = sym("relations")
              /\ text[close + 2] = sym("[")
              /\ (Len(text) - close - 4) % RelationTokens = 0
              /\ text[Len(text) - 1] = sym("]")
              /\ text[Len(text)] = sym("}")
              /\ \A k \in 1..nrels : parsed[k].ok
    IN  [ ok |-> ok,
          raw |-> IF ok THEN [k \in 1..(close - 4) |-> from_dec(text[3 + k].n)] ELSE << >>,
          relations |-> IF ok THEN [k \in 1..nrels |-> parsed[k].rel] ELSE << >> ]

\* A file of the directory, and one that is not there.
file(data) == [exists |-> TRUE, readable |-> TRUE, data |-> data]
NoFile     == [exists |-> FALSE, readable |-> FALSE, data |-> << >>]
\* What to_file last stored, as long as nothing else has touched the sidecar.
NotSaved   == [valid |-> FALSE, raw |-> << >>, relations |-> << >>]

\* Inputs in memory: raw seeds, annotated buffers, and relations whose saved
\* fields and 64-bit values differ from the defaults.
FileInputs ==
    {[raw |-> s, relations |-> << >>] : s \in Seeds} \cup Annotated \cup
    { [raw |-> << 255, 255, 255, 255, 255, 255, 255, 255 >>, relations |-> << RelMax8 >>],
      [raw |-> SeedA,
       relations |-> << [Relation_new(1, u64(4), 1, TRUE, 2, 6) EXCEPT
                            !.old_pos = 0, !.old_anchor = 1, !.old_insert = 5,
                            !.old_value = [k \in 1..8 |-> IF k = 8 THEN 128 ELSE 0]] >>] }

FileInit ==
    /\ \E a \in FileInputs : raw = a.raw /\ relations = a.relations
    /\ origin = "api"
    /\ phase = "memory"
    /\ op = NoOp
    /\ prev = [raw |-> raw, relations |-> relations]
    /\ failed = FALSE
    /\ nedits = 0
    /\ search = NoSearch
    /\ ctx = NoContext
    /\ corpus = [file |-> NoFile, sidecar |-> NoFile, saved |-> NotSaved]
    /\ \E status \in InputStatuses : stage = [pc |-> "file", status |-> status]

CanFile == nedits < MaxFileOps

\* What a step on the directory leaves in memory and in the directory.
FileStep(call, newraw, newrels, status, dir) ==
    /\ op' = call
    /\ prev' = [raw |-> raw, relations |-> relations]
    /\ nedits' = nedits + 1
    /\ failed' = (failed \/ ~call.ok)
    /\ raw' = newraw
    /\ relations' = newrels
    /\ stage' = [stage EXCEPT !.status = status]
    /\ corpus' = dir
    /\ UNCHANGED <<phase, origin, search, ctx>>

\* from_file reading the file of raw bytes whatever the sidecar holds.
from_file_raw_only(dir) ==
    IF dir.file.exists /\ dir.file.readable
    THEN [ok |-> TRUE, raw |-> dir.file.data, relations |-> << >>]
    ELSE [ok |-> FALSE, raw |-> << >>, relations |-> << >>]

\* from_file (structured_input.rs 90-113): the sidecar if it exists, read and
\* parsed with `?`, else the file of raw bytes.
from_file(dir) ==
    IF dir.sidecar.exists
    THEN IF ~dir.sidecar.readable
         THEN [ok |-> FALSE, raw |-> << >>, relations |-> << >>]
         ELSE LET structure == from_json(dir.sidecar.data)
              IN  [ok |-> structure.ok, raw |-> structure.raw,
                   relations |-> structure.relations]
    ELSE IF dir.file.exists /\ dir.file.readable
         THEN [ok |-> TRUE, raw |-> dir.file.data, relations |-> << >>]
         ELSE [ok |-> FALSE, raw |-> << >>, relations |-> << >>]

\* to_file (structured_input.rs 71-87): the raw bytes, then the sidecar.
ToFile ==
    /\ CanFile
    /\ FileStep(Call("to_file", 0, << >>, 0, TRUE), raw, relations, stage.status,
                [file |-> file(raw), sidecar |-> file(to_json(raw, relations)),
                 saved |-> [valid |-> TRUE, raw |-> raw, relations |-> relations]])

\* from_file: the input it returns replaces the one in memory; on Err there
\* is none, and the one in memory stays.
FromFile ==
    /\ CanFile
    /\ LET res == from_file(corpus)
       IN  IF res.ok
           THEN FileStep(Call("from_file", 0, << >>, 0, TRUE), res.raw, res.relations,
                         Status_New, corpus)
           ELSE FileStep(Call("from_file", 0, << >>, 0, FALSE), raw, relations,
                         stage.status, corpus)

\* Someone puts a file of raw bytes at the path (a seed of the corpus
\* directory): the sidecar is not touched.
FilePut ==
    /\ CanFile
    /\ \E s \in Seeds :
         FileStep(Call("put", 0, s, Len(s), TRUE), raw, relations, stage.status,
                  [corpus EXCEPT !.file = file(s)])

\* The sidecar is cut short, or can no longer be read as text.
FileDamage ==
    /\ CanFile
    /\ corpus.sidecar.exists
    /\ \E damaged \in
           { file(SubSeq(corpus.sidecar.data, 1, Len(corpus.sidecar.data) - cut)) :
                 cut \in 1..2 } \cup
           { [corpus.sidecar EXCEPT !.readable = FALSE] } :
         FileStep(Call("damage", 0, << >>, 0, TRUE), raw, relations, stage.status,
                  [corpus EXCEPT !.sidecar = damaged, !.saved = NotSaved])

\* The sidecar is deleted.
FileForget ==
    /\ CanFile
    /\ corpus.sidecar.exists
    /\ FileStep(Call("forget", 0, << >>, 0, TRUE), raw, relations, stage.status,
                [corpus EXCEPT !.sidecar = NoFile, !.saved = NotSaved])

FileNext ==
    \/ ToFile
    \/ FromFile
    \/ FilePut
    \/ FileDamage
    \/ FileForget

FileSpec == FileInit /\ [][FileNext]_vars

---------------------------------------------------------------------------
(* Properties.                                                             *)

\* The enabled relations of a list, by position.
EnabledAt(rels) == {k \in 1..Len(rels) : rels[k].enabled}

\* r is in range for a buffer of length n.
InRange(r, n) ==
    /\ r.pos + r.size <= n
    /\ r.anchor <= r.insert
    /\ r.insert <= n

RangeInvariant(buf, rels) == \A k \in EnabledAt(rels) : InRange(rels[k], Len(buf))

\* The field byte ranges of the enabled relations are pairwise disjoint.
FieldsDisjoint(rels) ==
    \A j, k \in EnabledAt(rels) :
        j # k => \/ rels[j].pos + rels[j].size <= rels[k].pos
                 \/ rels[k].pos + rels[k].size <= rels[j].pos

\* The bytes of r's field decode, in r's endianness, to r.value.
Decodes(r, buf) ==
    /\ r.pos + r.size <= Len(buf)
    /\ from_bytes(buf, r.pos, r.size, r.le) = r.value

SelfHealed(buf, rels) == \A k \in EnabledAt(rels) : Decodes(rels[k], buf)

StrictNames    == {"insert", "remove"}
DisablingNames == {"insert_disabling", "remove_disabling"}
EditNames      == {"write"} \cup StrictNames \cup DisablingNames \cup MutateNames

\* The last call was a Structured edit / a mutate that returned.
Returned(names) == op.name \in names /\ phase = "ready"

\* What each relation of the list before the last call answered to it.
last_results ==
    IF op.name = "insert_disabling" \/ op.name = "insert"
    THEN insert_results(prev.relations, op.idx, op.size)
    ELSE remove_results(prev.relations, op.idx, op.size)

\* The number of positions of list that hold x.
CountOf(list, x) == Cardinality({k \in 1..Len(list) : list[k] = x})

\* C1 (as stated): from a buffer whose relations are in range and whose fields
\* are pairwise disjoint, after every public edit (write, insert, remove,
\* insert_disabling, remove_disabling, a non-skipped mutate) the field of every
\* enabled relation decodes to the relation's value.
C1_SelfHeal ==
    ( /\ Returned(EditNames)
      /\ RangeInvariant(prev.raw, prev.relations)
      /\ FieldsDisjoint(prev.relations) )
    => SelfHealed(raw, relations)

\* C1: a strict edit that returned Err after having updated a relation, from a
\* buffer in range with disjoint fields: a field no longer decodes to its value.
C1_Witness ==
    /\ Returned(StrictNames)
    /\ ~op.ok
    /\ origin = "search"
    /\ RangeInvariant(prev.raw, prev.relations)
    /\ FieldsDisjoint(prev.relations)
    /\ ~SelfHealed(raw, relations)

sum_exceeds_width(v, n, size) ==
    u64_add_overflows(v, n) \/ exceeds_max_val(u64_wrapping_add(v, n), size)

\* C4 (as stated): for the relation at hand (anchor <= insert), every offset and
\* every byte count, an on_insert that succeeds is undone by on_remove with the
\* same arguments: it succeeds and gives back the relation, field for field.
C4_RoundTrip ==
    phase = "relation" =>
        \A idx \in 0..MaxIdx : \A n \in Counts :
            LET r   == relations[1]
                ins == Relation_on_insert(r, idx, n)
                rem == Relation_on_remove(ins.rel, idx, n)
            IN  (r.anchor <= r.insert /\ ins.ok) => (rem.ok /\ rem.rel = r)

\* C4: an 8-byte field holding 2^64 - 1 whose on_insert wrapped the value and
\* returned Ok; the on_remove that should undo it is rejected.
C4_Witness ==
    /\ phase = "relation"
    /\ op.name = "on_insert"
    /\ op.ok
    /\ prev.relations[1].value = max_val(8)
    /\ relations[1].value = u64(op.size - 1)
    /\ ~Relation_on_remove(relations[1], op.idx, op.size).ok

\* C5 (as stated): when insert or remove returns Err the buffer is as before the
\* call: raw unchanged, every relation with its pos, anchor, insert and value.
C5_StrictAtomic ==
    (Returned(StrictNames) /\ ~op.ok) =>
        /\ raw = prev.raw
        /\ relations = prev.relations

\* C5: an insert or remove returned Err, raw is as before and the relation list
\* is not.
C5_Witness ==
    /\ Returned(StrictNames)
    /\ ~op.ok
    /\ raw = prev.raw
    /\ relations # prev.relations

\* The buffer the byte edit of the last loss-tolerant call makes of prev.raw.
last_edited ==
    IF op.name = "insert_disabling"
    THEN splice(prev.raw, op.idx, op.idx, op.data)
    ELSE splice(prev.raw, op.idx, op.idx + op.size, << >>)

\* Byte k (0-based) lies in the field of an enabled relation.
InField(k, rels) ==
    \E j \in EnabledAt(rels) : rels[j].pos <= k /\ k < rels[j].pos + rels[j].size

\* C6: on a buffer that satisfies the range invariant, insert_disabling and
\* remove_disabling with in-bounds arguments complete (no panic); len(raw) has
\* changed by +len(data) resp. -n; every byte outside the fields of the
\* surviving relations is that of the old raw with the bytes inserted resp.
\* deleted; every relation of the new list comes from one of the old list.
C6_LossTolerant ==
    (op.name \in DisablingNames /\ RangeInvariant(prev.raw, prev.relations)) =>
        /\ phase # "crashed"
        /\ Len(raw) = Len(prev.raw) + (IF op.name = "insert_disabling"
                                       THEN op.size ELSE 0 - op.size)
        /\ Len(raw) = Len(last_edited)
        /\ \A k \in 0..(Len(raw) - 1) :
              ~InField(k, relations) => raw[k + 1] = last_edited[k + 1]
        /\ \A k \in 1..Len(relations) :
              \E j \in 1..Len(prev.relations) : relations[k] = last_results[j].rel

\* C6: a loss-tolerant insertion that a relation rejected went through.
C6_Witness ==
    /\ op.name = "insert_disabling"
    /\ phase = "ready"
    /\ RangeInvariant(prev.raw, prev.relations)
    /\ Len(rejected(last_results)) = 1
    /\ Len(raw) = Len(prev.raw) + 2

\* The positions of the old list whose relation accepted the last call or was
\* not enabled.
last_kept == {j \in 1..Len(prev.relations) : last_results[j].ok}

\* C7: after insert_disabling / remove_disabling the list holds exactly the
\* relations that accepted the edit, as updated, and those that were not
\* enabled, each as many times as before; no rejecting relation remains.
C7_ExactSwapRemoval ==
    Returned(DisablingNames) =>
        /\ Len(relations) = Cardinality(last_kept)
        /\ \A k \in 1..Len(relations) :
              \E j \in last_kept : relations[k] = last_results[j].rel
        /\ \A j \in last_kept :
              CountOf(relations, last_results[j].rel) =
                  Cardinality({i \in last_kept : last_results[i].rel = last_results[j].rel})

\* C7: two relations of four rejected, neither of them the last two in a row:
\* the second and the fourth.
C7_Witness ==
    /\ Returned(DisablingNames)
    /\ Len(prev.relations) = 4
    /\ rejected(last_results) = <<2, 4>>
    /\ Len(relations) = 2

C9_ErrorsExactly ==
    phase = "relation" =>
        \A idx \in 0..MaxIdx : \A n \in Counts :
            LET r == relations[1]
            IN  ~Relation_on_insert(r, idx, n).ok <=>
                    \/ r.pos < idx /\ idx < r.pos + r.size
                    \/ /\ r.anchor <= idx /\ idx <= r.insert
                       /\ sum_exceeds_width(r.value, n, r.size)

\* C9: the example: width 1, value 0x30; 0x40 bytes inside the range were
\* accepted (value 0x70) and 0xF0 more are rejected.
C9_Witness ==
    /\ phase = "relation"
    /\ nedits = 2
    /\ op = Call("on_insert", 1, << >>, 240, FALSE)
    /\ prev.relations[1].size = 1
    /\ prev.relations[1].value = u64(112)
    /\ prev.relations[1].insert = 65

\* C10 (amended): a relation whose anchor is 0 has anchor 0 after every
\* on_insert and on_remove call, whatever the offset and the result; if its
\* value is its insert point, it still is after every call that succeeded.
C10_AnchorPinned ==
    [][ (phase = "relation" /\ relations[1].anchor = 0) =>
            /\ relations'[1].anchor = 0
            /\ (relations[1].value = u64(relations[1].insert) /\ op'.ok) =>
                  relations'[1].value = u64(relations'[1].insert) ]_vars

\* C10 (as stated): a relation with anchor 0 and value = insert has anchor 0 and
\* value = insert after every on_insert and on_remove call.
C10_KeepsValue ==
    [][ ( /\ phase = "relation"
          /\ relations[1].anchor = 0
          /\ relations[1].value = u64(relations[1].insert) ) =>
            /\ relations'[1].anchor = 0
            /\ relations'[1].value = u64(relations'[1].insert) ]_vars

\* C10: an offset field after a second call, an insertion at offset 0 that
\* moved the field and the insert point and left the anchor at 0.
C10_Witness ==
    /\ phase = "relation"
    /\ nedits >= 2
    /\ op.name = "on_insert" /\ op.idx = 0 /\ op.ok
    /\ prev.relations[1].anchor = 0
    /\ prev.relations[1].value = u64(prev.relations[1].insert)
    /\ relations[1].anchor = 0
    /\ relations[1].pos = prev.relations[1].pos + op.size
    /\ relations[1].value = u64(relations[1].insert)

\* C11: for every width in {1, 2, 3, 4, 8}, both endiannesses and every value
\* that fits the width, apply changes only the bytes buf[pos .. pos+size], and
\* those bytes decode, in the relation's endianness, to the value.
C11_ApplyRoundTrip ==
    (op.name = "apply" /\ phase = "apply") =>
        LET r == relations[1]
        IN  /\ Len(raw) = Len(prev.raw)
            /\ \A k \in 0..(Len(raw) - 1) :
                  (k < r.pos \/ k >= r.pos + r.size) => raw[k + 1] = prev.raw[k + 1]
            /\ from_bytes(raw, r.pos, r.size, r.le) = r.value

\* C11: a 3-byte big-endian field with three different bytes was applied.
C11_Witness ==
    /\ op.name = "apply"
    /\ phase = "apply"
    /\ relations[1].size = 3
    /\ ~relations[1].le
    /\ relations[1].pos = 1
    /\ SubSeq(raw, 2, 4) = <<3, 2, 1>>


\* The fields of a relation a search scenario names.
Fields(r) ==
    [pos |-> r.pos, size |-> r.size, le |-> r.le, value |-> r.value,
     anchor |-> r.anchor, insert |-> r.insert]

\* A search of the raw seed with the named oracle and options has returned.
SearchReturned(seed, name, options) ==
    /\ phase = "ready"
    /\ origin = "search"
    /\ prev.raw = seed
    /\ ctx.oracle = name
    /\ ctx.options = options

\* C12: Scenario A.  The search of the raw seed 01 04 41 41 41 41 FF FF with
\* the default options and the oracle that executes index i iff the i-th byte
\* of the window buf[2 .. 2+buf[1]] is 0x41 returns exactly one relation,
\* {pos=1, size=1, le=true, value=4, anchor=2, insert=6}, and the raw bytes
\* unchanged.
C12_ScenarioA ==
    SearchReturned(SeedA, "window", default_options) =>
        /\ Len(relations) = 1
        /\ Fields(relations[1]) = [pos |-> 1, size |-> 1, le |-> TRUE, value |-> u64(4),
                                   anchor |-> 2, insert |-> 6]
        /\ raw = SeedA
C12_Witness ==
    /\ SearchReturned(SeedA, "window", default_options)
    /\ ctx.focus_indices = {0, 1, 2, 3}
    /\ Len(relations) = 1
    /\ relations[1].insert = 6

\* C13: endianness discrimination.  For the 14-byte seed (2-byte length 8 at
\* offset 0, eight 'A', four 'B') and the oracle that executes index k iff
\* buf[2+k] is within the declared length, the search emits exactly one
\* relation, size=2, pos=0, anchor=2, insert=10, value=8, with le=false for the
\* big-endian seed and le=true for the little-endian seed.
C13_Endianness ==
    \A le \in BOOLEAN :
        SearchReturned(IF le THEN SeedLE ELSE SeedBE,
                       IF le THEN "declared_le" ELSE "declared_be", default_options) =>
            /\ Len(relations) = 1
            /\ Fields(relations[1]) = [pos |-> 0, size |-> 2, le |-> le, value |-> u64(8),
                                       anchor |-> 2, insert |-> 10]
C13_Witness ==
    /\ SearchReturned(SeedBE, "declared_be", default_options)
    /\ Len(relations) = 1
    /\ ~relations[1].le
    /\ relations[1].anchor = 2

\* C14: no false positives without signal.  For every raw seed and option
\* setting, when the oracle returns the same coverage map for every input the
\* search commits no relation at any point, so it returns zero relations
\* (found_any = false), and the raw bytes are unchanged.
C14_NoFalsePositives ==
    (ctx.oracle \in ConstantOracles /\ phase \in {"search", "ready"}) =>
        /\ relations = << >>
        /\ ~search.found
        /\ raw = prev.raw
C14_Witness ==
    /\ SearchReturned(SeedA, "zeros", [max_iters |-> max_iters, loss_threshold |-> 0,
                                       recover_threshold |-> 0])
    /\ relations = << >>
    /\ ctx.loss_threshold = 1

\* The field byte ranges of all relations of a list are pairwise disjoint.
FieldsNeverOverlap(rels) ==
    \A j, k \in 1..Len(rels) :
        j # k => \/ rels[j].pos + rels[j].size <= rels[k].pos
                 \/ rels[k].pos + rels[k].size <= rels[j].pos

\* C15: fields never overlap after search.  During and after a search that
\* started from a raw buffer, or from a buffer whose relation fields are
\* pairwise disjoint, the field byte ranges of any two distinct relations are
\* disjoint, whatever the oracle answers and in every pass; so for a seed with
\* two length-prefixed chunks the second accepted field does not overlap the
\* first.
C15_FieldsNeverOverlap ==
    (phase \in {"search", "ready"} /\ nedits = 0 /\ FieldsNeverOverlap(prev.relations)) =>
        FieldsNeverOverlap(relations)
C15_Witness ==
    /\ phase = "ready"
    /\ nedits = 0
    /\ origin = "search"
    /\ raw = SeedB
    /\ Len(relations) = 2
    /\ relations[1].pos = 0 /\ relations[1].size = 2
    /\ relations[2].pos = 4 /\ relations[2].size = 2

\* The relation of Scenario A.
ScenarioRelation ==
    [pos |-> 1, size |-> 1, le |-> TRUE, value |-> u64(4), anchor |-> 2, insert |-> 6]

\* The last call was made on the Scenario A result: the seed with its one
\* relation, enabled.
OnScenarioA(name, idx) ==
    /\ op.name = name
    /\ op.idx = idx
    /\ prev.raw = SeedA
    /\ Len(prev.relations) = 1
    /\ prev.relations[1].enabled
    /\ Fields(prev.relations[1]) = ScenarioRelation

\* C16: Scenario B.  insert_disabling(6, [0x42, 0x42]) on raw
\* 01 04 41 41 41 41 FF FF with the single relation {pos=1, size=1, le=true,
\* value=4, anchor=2, insert=6} gives raw 01 06 41 41 41 41 42 42 FF FF; the
\* relation is kept, its value is 6, its insert is 8, its pos and anchor are
\* unchanged.
C16_ScenarioB ==
    (OnScenarioA("insert_disabling", 6) /\ op.data = <<66, 66>>) =>
        /\ raw = <<1, 6, 65, 65, 65, 65, 66, 66, 255, 255>>
        /\ Len(relations) = 1
        /\ relations[1].enabled
        /\ Fields(relations[1]) =
              [ScenarioRelation EXCEPT !.value = u64(6), !.insert = 8]
C16_Witness ==
    /\ OnScenarioA("insert_disabling", 6)
    /\ op.data = <<66, 66>>
    /\ phase = "ready"
    /\ Len(raw) = 10
    /\ Len(relations) = 1

\* C17 (as stated): Scenario C.  remove_disabling(0, 1) on the same buffer
\* leaves raw 04 41 41 41 41 FF FF and the relation disabled: no relation of
\* the buffer is active any more.
C17_RelationDisabled ==
    (OnScenarioA("remove_disabling", 0) /\ op.size = 1) =>
        /\ raw = <<4, 65, 65, 65, 65, 255, 255>>
        /\ EnabledAt(relations) = {}

\* C17 (amended): remove_disabling(0, 1) removes the byte before the length
\* byte: raw is 04 41 41 41 41 FF FF and the relation is kept, enabled, moved
\* down by one (pos=0, anchor=1, insert=5, value=4).  It is
\* remove_disabling(1, 1), which removes the length byte itself, that takes
\* the relation off the list, leaving raw 01 41 41 41 41 FF FF.
C17_ScenarioC ==
    /\ (OnScenarioA("remove_disabling", 0) /\ op.size = 1) =>
          /\ raw = <<4, 65, 65, 65, 65, 255, 255>>
          /\ Len(relations) = 1
          /\ relations[1].enabled
          /\ Fields(relations[1]) =
                [ScenarioRelation EXCEPT !.pos = 0, !.anchor = 1, !.insert = 5]
    /\ (OnScenarioA("remove_disabling", 1) /\ op.size = 1) =>
          /\ raw = <<1, 65, 65, 65, 65, 255, 255>>
          /\ relations = << >>
C17_Witness ==
    /\ OnScenarioA("remove_disabling", 0)
    /\ op.size = 1
    /\ phase = "ready"
    /\ Len(raw) = 7
    /\ Len(relations) = 1

\* A step in which perform is called on entry id.
PerformCalled(id) ==
    /\ stage.pc = "idle"
    /\ stage'.performs = stage.performs + 1
    /\ stage'.result # "empty"
    /\ stage'.idx = id

\* A step in which the oracle is called.
OracleCalled == stage'.oracle_calls > stage.oracle_calls

\* A step in which perform returns at once, having run nothing and changed
\* nothing.
PerformNoOp ==
    /\ stage'.pc = "idle"
    /\ stage'.result = "skipped"
    /\ ~OracleCalled
    /\ stage'.searches = stage.searches
    /\ corpus' = corpus

\* C18: no retry loop.  A perform on an entry whose status is InProgress
\* returns without calling the oracle and leaves the status InProgress; an
\* InProgress entry that is not being searched stays InProgress; and over any
\* sequence of perform calls and oracle crashes a search is started at most
\* once for each corpus entry.
C18_NoRetryLoop ==
    [][ /\ \A id \in CorpusIds :
             /\ (PerformCalled(id) /\ corpus[id].status = Status_InProgress) =>
                    PerformNoOp
             /\ (corpus[id].status = Status_InProgress /\ stage.pc = "idle") =>
                    corpus'[id].status = Status_InProgress
             /\ stage'.searches[id] <= 1 ]_vars
C18_Witness ==
    /\ stage.pc = "idle"
    /\ stage.result = "skipped"
    /\ stage.searches[stage.idx] = 1
    /\ corpus[stage.idx].status = Status_InProgress

\* C19: status ordering in perform.  The entry is stored with status
\* InProgress before the first oracle call of its search and stays InProgress
\* during every oracle call of that search; it is stored with status
\* Searched(own id), together with the search result, only after the engine
\* has returned.
C19_StatusOrdering ==
    [][ /\ OracleCalled =>
             /\ stage.pc = "search"
             /\ stage'.idx = stage.idx
             /\ corpus[stage.idx].status = Status_InProgress
             /\ corpus'[stage.idx].status = Status_InProgress
        /\ stage'.pc = "search" => corpus'[stage'.idx].status = Status_InProgress
        /\ \A id \in CorpusIds :
             (corpus'[id] # corpus[id] /\ corpus'[id].status.tag = "Searched") =>
                 /\ stage.pc = "search"
                 /\ stage.idx = id
                 /\ phase = "ready"
                 /\ corpus[id].status = Status_InProgress
                 /\ corpus'[id] = StructuredInput(raw, relations, Status_Searched(id)) ]_vars
C19_Witness ==
    /\ stage.pc = "idle"
    /\ stage.result = "ok"
    /\ stage.oracle_calls > 2
    /\ corpus[stage.idx].status = Status_Searched(stage.idx)
    /\ Len(corpus[stage.idx].input.relations) = 1

\* C20: SearchStage transitions.  perform on an entry with status New,
\* Mutated or Searched(id) with id other than the entry's own runs one search,
\* and when it returns the entry has status Searched(own id); perform on an
\* entry with status Searched(own id) runs no search and changes nothing, so
\* a second perform on the same entry is a no-op.
C20_Transitions ==
    [][ \A id \in CorpusIds :
          /\ (PerformCalled(id) /\ corpus[id].status \in
                  {Status_New, Status_Mutated} \cup
                  {Status_Searched(o) : o \in CorpusIds \ {id}}) =>
                 /\ stage'.pc = "search"
                 /\ stage'.searches[id] = stage.searches[id] + 1
          /\ (stage.pc = "search" /\ stage.idx = id /\ stage'.result = "ok") =>
                 /\ stage.searches[id] = 1
                 /\ corpus'[id].status = Status_Searched(id)
          /\ (PerformCalled(id) /\ corpus[id].status = Status_Searched(id)) =>
                 PerformNoOp ]_vars
C20_Witness ==
    /\ stage.pc = "idle"
    /\ stage.result = "skipped"
    /\ stage.searches[stage.idx] = 1
    /\ stage.metadata.num_searched = 1
    /\ corpus[stage.idx].status = Status_Searched(stage.idx)

\* A probe of the candidate under the cursor is pending.
ProbePending ==
    /\ phase = "search"
    /\ origin = "search"
    /\ search.c.i < Len(raw)

\* The outcomes the pending probe can have.
ProbeOutcomes == probe(ctx, raw, relations, search.c.i, search.c.t)

\* C21: determinism.  Two runs of the search on the same seed, options and
\* deterministic oracle return the same relation list in the same order, also
\* when the inflection points are the anchors of a 4- or 8-byte candidate:
\* every probe of every run has exactly one outcome, so that the seed, the
\* options and the oracle fix each step of the run and with it the list.
C21_Determinism ==
    ProbePending => Cardinality({[commit |-> out.commit, rel |-> out.rel] : out \in ProbeOutcomes}) = 1

\* The search of SeedMarkers has committed the offset at 0 and probes the one
\* at 7: no local anchor recovers it, the inflection points 4 and 5 both do.
C21_Witness ==
    /\ ProbePending
    /\ raw = SeedMarkers
    /\ ctx.oracle = "markers"
    /\ ctx.options = default_options
    /\ Len(relations) = 1
    /\ search.c.i = 7
    /\ \E a, b \in ProbeOutcomes :
          a.commit /\ b.commit /\ a.rel.anchor = 4 /\ b.rel.anchor = 5

\* What check_anchor makes of one anchor of the pending probe on its own,
\* with nothing accepted before it and no threshold: matched iff the anchor
\* is tested, num the count of lost indices it recovers.
AnchorAlone(a) ==
    check_anchor(ctx, raw, save_relations(relations), search.c.i, search.c.t,
                 lost_indices(ctx, raw, search.c.i, search.c.t), a,
                 [no_match(ctx.options) EXCEPT !.num = 0])

\* The anchors tried first for the pending probe, and what they end with.
PendingLocal == local_anchors(search.c.i, rel_types[search.c.t].size)
PendingLocalMatch ==
    check_anchors(ctx, raw, save_relations(relations), search.c.i, search.c.t,
                  lost_indices(ctx, raw, search.c.i, search.c.t),
                  PendingLocal, no_match(ctx.options))

\* The places of the candidate order whose anchor recovers as much as a.
TiedWith(a) ==
    {k \in 1..Len(PendingLocal) :
        /\ AnchorAlone(PendingLocal[k]).matched
        /\ AnchorAlone(PendingLocal[k]).num = AnchorAlone(a).num}

\* C22 as stated: anchor tie-break.  When several anchors of the candidate
\* order reach the same recovered ratio, the relation is committed with the
\* one that comes first in the order.
C22_FirstSeen ==
    ProbePending =>
        \A out \in ProbeOutcomes :
            (out.commit /\ PendingLocalMatch.matched) =>
                \A k \in TiedWith(out.rel.anchor) :
                    (\A j \in TiedWith(out.rel.anchor) : k <= j) =>
                        out.rel.anchor = PendingLocal[k]

\* C22 amended: among the anchors of the local candidate order (width 2: 0, i,
\* i+size; width 4/8: i+size+7 .. i+size+1, 0, i, i+size) that reach the same,
\* greatest, recovered ratio, the relation is committed with the one that
\* comes last in the order.
C22_LastSeen ==
    ProbePending =>
        \A out \in ProbeOutcomes :
            (out.commit /\ PendingLocalMatch.matched) =>
                /\ TiedWith(out.rel.anchor) # {}
                /\ \A k \in TiedWith(out.rel.anchor) :
                      (\A j \in TiedWith(out.rel.anchor) : j <= k) =>
                          out.rel.anchor = PendingLocal[k]
                /\ \A k \in 1..Len(PendingLocal) :
                      AnchorAlone(PendingLocal[k]).matched =>
                          AnchorAlone(PendingLocal[k]).num <= AnchorAlone(out.rel.anchor).num

\* The 2-byte length of SeedBE is probed: the anchors 0 and 2 recover all the
\* lost coverage, and the relation is committed with 2.
C22_Witness ==
    /\ ProbePending
    /\ raw = SeedBE
    /\ ctx.oracle = "declared_be"
    /\ ctx.options = default_options
    /\ search.c.i = 0
    /\ rel_types[search.c.t] = [size |-> 2, le |-> FALSE]
    /\ TiedWith(2) = {1, 2, 3}
    /\ \E out \in ProbeOutcomes : out.commit /\ out.rel.anchor = 2

\* C23: search termination.  For every seed and every oracle that returns,
\* the search terminates; the pass number stays within 1..max_iters; another
\* pass starts only if the previous pass committed at least one new relation,
\* a pass being marked as having found something only by a step that
\* lengthens the relation list; with max_iters = 0 no pass runs, no buffer is
\* tested and no relation is added; a candidate under the cursor always has
\* a probe outcome, so that the loop is never stuck.
C23_Termination ==
    /\ [](phase = "search" => search.iter \in 1..ctx.options.max_iters)
    /\ [][(phase = "search" /\ phase' = "search" /\ search'.iter # search.iter)
            => (search.found /\ search'.iter = search.iter + 1 /\ ~search'.found)]_vars
    /\ [][(phase = "search" /\ phase' = "search" /\ ~search.found /\ search'.found)
            => Len(relations') = Len(relations) + 1]_vars
    /\ []((phase = "ready" /\ ctx.options.max_iters = 0)
            => (relations = << >> /\ ctx.test_count = 0))
    /\ [](ProbePending => ProbeOutcomes # {})
    /\ <>(phase = "ready")

\* A search with the default bound has returned with relations: it ran a pass
\* that committed, then a pass that did not.
C23_Witness ==
    /\ phase = "ready"
    /\ origin = "search"
    /\ ctx.options.max_iters = max_iters
    /\ Len(relations) = 2

\* The buffer comes from a search and no strict edit has failed on it: it is
\* as the search and the calls of the mutation primitives left it.
FromSearch == origin = "search" /\ ~failed

\* The length a plain byte vector has after the last mutation primitive.
VecLen ==
    CASE op.name = "splice" -> Len(prev.raw) - op.size + Len(op.data)
      [] op.name = "drain"  -> Len(prev.raw) - op.size
      [] op.name = "extend" -> Len(prev.raw) + Len(op.data)
      [] op.name = "resize" -> IF op.data = << >> THEN op.idx ELSE Len(prev.raw) + Len(op.data)
      [] OTHER              -> Len(prev.raw)

Fresh(trace) ==
    \A p \in 1..Len(trace) :
        trace[p].kind = "read" =>
            trace[p].slice = Cardinality({q \in 1..p : trace[q].kind = "call"})

\* What the read of slice k of a trace finds in the shared map.
ReadOf(name, trace, k) ==
    shared_map(name, trace, CHOOSE p \in 1..Len(trace) :
                                trace[p].kind = "read" /\ trace[p].slice = k)

Loaded == op.name = "from_file"

\* from_file returned this buffer, as a new input.
LoadedAs(buf, rels) ==
    /\ op.ok
    /\ raw = buf
    /\ relations = rels
    /\ stage.status = Status_New

\* The sidecar is there and holds the text of a Structured.
SidecarHolds ==
    /\ corpus.sidecar.exists
    /\ corpus.sidecar.readable
    /\ from_json(corpus.sidecar.data).ok

\* C26: sidecar round trip.  from_file returns the buffer stored in the
\* sidecar `.<name>.annotated` whenever the sidecar holds one, otherwise, with
\* no sidecar, the bytes of `<name>` with an empty relation list; and to_file
\* followed by from_file on the same path returns the raw bytes and the
\* relation list that were saved, every field of every relation included,
\* with status New.
C26_SidecarRoundTrip ==
    Loaded =>
        /\ corpus.saved.valid => LoadedAs(corpus.saved.raw, corpus.saved.relations)
        /\ SidecarHolds => LoadedAs(from_json(corpus.sidecar.data).raw,
                                    from_json(corpus.sidecar.data).relations)
        /\ (~corpus.sidecar.exists /\ corpus.file.exists) => LoadedAs(corpus.file.data, << >>)

\* An input with an 8-byte relation of value 2^64 - 1 and a status other than
\* New was saved and has been loaded again.
C26_Witness ==
    /\ Loaded
    /\ corpus.saved.valid
    /\ Len(relations) = 1
    /\ relations[1] = RelMax8
    /\ nedits = 2
    /\ stage.status = Status_New

\* C27: an unreadable sidecar falls back to raw.  When the sidecar exists but
\* cannot be read or parsed, from_file behaves as if it were missing: it
\* returns the bytes of `<name>` as a raw buffer with no relations, and no
\* error.
C27_FallsBackToRaw ==
    (Loaded /\ corpus.sidecar.exists /\ ~SidecarHolds /\ corpus.file.exists) =>
        LoadedAs(corpus.file.data, << >>)

\* from_file has returned an error: the sidecar is cut short, the file of raw
\* bytes is there.
C27_Witness ==
    /\ Loaded
    /\ ~op.ok
    /\ corpus.sidecar.exists
    /\ corpus.sidecar.readable
    /\ ~from_json(corpus.sidecar.data).ok
    /\ corpus.file.exists

\* The step in which perform stores the result of a search that returned.
Stored == stage.pc = "search" /\ stage'.result = "ok"

\* C28: oracle-call accounting.  The test_count of a search result equals the
\* number of oracle calls the engine made for that search, the two
\* preparation calls on the seed and on the empty input included, and the
\* statistic search_tests grows by that number with every search stored, so
\* that it is the total of the oracle calls of the searches so far.
C28_CallAccounting ==
    [][ Stored =>
          /\ ctx.test_count = stage.oracle_calls
          /\ stage'.metadata.search_tests =
                 stage.metadata.search_tests + stage.oracle_calls ]_vars

\* One search has been stored: the oracle was called two times more than
\* search_tests says.
C28_Witness ==
    /\ stage.pc = "idle"
    /\ stage.result = "ok"
    /\ stage.metadata.num_searched = 1
    /\ stage.metadata.search_tests > 0
    /\ stage.oracle_calls = stage.metadata.search_tests + 2

\* The search whose result is being stored committed at least one relation.
FoundNew == Len(relations) > Len(prev.relations)

\* C29: statistics invariants.  After any sequence of perform calls
\* num_found <= num_searched; a perform that skips changes no statistic; a
\* perform that searches increases num_searched by exactly 1, and num_found
\* by 1 exactly when the search found at least one relation for that entry,
\* otherwise by 0.
C29_Statistics ==
    [][ /\ stage'.metadata.num_found <= stage'.metadata.num_searched
        /\ (stage.pc = "idle" /\ stage'.pc = "idle") => stage'.metadata = stage.metadata
        /\ Stored =>
             /\ stage'.metadata.num_searched = stage.metadata.num_searched + 1
             /\ stage'.metadata.num_found =
                    stage.metadata.num_found + (IF FoundNew THEN 1 ELSE 0) ]_vars

\* The search of an entry that came with one relation has returned with that
\* relation and no other, and num_found has counted it.
C29_Witness ==
    /\ stage.pc = "idle"
    /\ stage.result = "ok"
    /\ stage.idx = 1
    /\ corpus[1].input.relations = << RelHead >>
    /\ stage.metadata.num_searched = 1
    /\ stage.metadata.num_found = 1

\* on_insert(idx, n) has just returned Ok.
InsertReturnedOk == phase = "relation" /\ op.name = "on_insert" /\ op.ok

\* C30: Relation::on_insert(idx, n) on success.  value increases by n iff
\* anchor <= idx <= insert; pos increases by n iff idx <= pos; anchor
\* increases by n iff idx < anchor; insert increases by n iff idx <= insert;
\* size, le and enabled never change.
C30_OnInsertEffects ==
    InsertReturnedOk =>
        LET b == prev.relations[1]
            a == relations[1]
        IN  /\ IF b.anchor <= op.idx /\ op.idx <= b.insert
               THEN /\ ~u64_add_overflows(b.value, op.size)
                    /\ a.value = u64_wrapping_add(b.value, op.size)
               ELSE a.value = b.value
            /\ a.pos    = (IF op.idx <= b.pos    THEN b.pos + op.size    ELSE b.pos)
            /\ a.anchor = (IF op.idx <  b.anchor THEN b.anchor + op.size ELSE b.anchor)
            /\ a.insert = (IF op.idx <= b.insert THEN b.insert + op.size ELSE b.insert)
            /\ a.size = b.size
            /\ a.le = b.le
            /\ a.enabled = b.enabled

\* on_insert returned Ok on an 8-byte field whose value plus n is beyond 64
\* bits: the value has wrapped.
C30_Witness ==
    /\ InsertReturnedOk
    /\ prev.relations[1].size = 8
    /\ prev.relations[1].anchor <= op.idx
    /\ op.idx <= prev.relations[1].insert
    /\ u64_add_overflows(prev.relations[1].value, op.size)
    /\ relations[1].value = u64_wrapping_add(prev.relations[1].value, op.size)

\* The last call was rel.on_remove and it returned.
OnRemoveReturned == phase = "relation" /\ op.name = "on_remove"

\* max(0, x)
AtLeastZero(x) == IF x > 0 THEN x ELSE 0

\* overlap = max(0, min(idx + n, insert) - max(idx, anchor))
RemovedOverlap(r, idx, n) ==
    AtLeastZero((IF idx + n < r.insert THEN idx + n ELSE r.insert)
                - (IF idx > r.anchor THEN idx ELSE r.anchor))

\* min(n, max(0, X - idx)): how far an offset X moves down.
RemovedBefore(x, idx, n) ==
    IF n < AtLeastZero(x - idx) THEN n ELSE AtLeastZero(x - idx)

\* C31: on_remove(idx, n) fails iff the removed range intersects the field or
\* the overlap with [anchor, insert) is larger than the value; on success the
\* value decreases by the overlap, each of pos, anchor and insert decreases by
\* min(n, max(0, X - idx)) (so an offset at or before idx stays), and
\* anchor <= insert still holds.
C31_OnRemoveEffects ==
    OnRemoveReturned =>
        LET r0      == prev.relations[1]
            r1      == relations[1]
            idx     == op.idx
            n       == op.size
            overlap == RemovedOverlap(r0, idx, n)
            hits    == idx < r0.pos + r0.size /\ idx + n > r0.pos
        IN  /\ ~op.ok <=> (hits \/ nat_gt_u64(overlap, r0.value))
            /\ op.ok =>
                 /\ u64_wrapping_add(r1.value, overlap) = r0.value
                 /\ ~u64_add_overflows(r1.value, overlap)
                 /\ r1.pos    = r0.pos    - RemovedBefore(r0.pos, idx, n)
                 /\ r1.anchor = r0.anchor - RemovedBefore(r0.anchor, idx, n)
                 /\ r1.insert = r0.insert - RemovedBefore(r0.insert, idx, n)
                 /\ (r0.pos <= idx    => r1.pos = r0.pos)
                 /\ (r0.anchor <= idx => r1.anchor = r0.anchor)
                 /\ (r0.insert <= idx => r1.insert = r0.insert)
                 /\ r1.anchor <= r1.insert
                 /\ r1.size = r0.size /\ r1.le = r0.le /\ r1.enabled = r0.enabled

\* A removal that succeeded, took bytes out of the governed range and moved
\* the field down.
C31_Witness ==
    /\ OnRemoveReturned
    /\ op.ok
    /\ RemovedOverlap(prev.relations[1], op.idx, op.size) > 0
    /\ relations[1].pos < prev.relations[1].pos
    /\ relations[1].value # prev.relations[1].value

\* The last call on the relation returned Err (it did not panic).
RelationRejected ==
    phase = "relation" /\ op.name \in {"on_insert", "on_remove"} /\ ~op.ok

\* The rejected call was an on_insert that does not split the field: it was
\* rejected because the value no longer fits the width.
RejectedForWidth ==
    /\ RelationRejected
    /\ op.name = "on_insert"
    /\ ~(op.idx > prev.relations[1].pos
         /\ op.idx < prev.relations[1].pos + prev.relations[1].size)

\* C32 (as stated): whenever on_insert or on_remove returns an error, the
\* relation's pos, anchor, insert and value are the same as before the call.
C32_RejectionUntouched ==
    RelationRejected =>
        /\ relations[1].pos    = prev.relations[1].pos
        /\ relations[1].anchor = prev.relations[1].anchor
        /\ relations[1].insert = prev.relations[1].insert
        /\ relations[1].value  = prev.relations[1].value

\* C32 (amended): whenever on_insert or on_remove returns an error, pos, anchor
\* and insert are the same as before the call; value is the same as before
\* too, except after an on_insert rejected for width overflow, which leaves
\* value increased by n.
C32_RejectionKeepsOffsets ==
    RelationRejected =>
        /\ relations[1].pos    = prev.relations[1].pos
        /\ relations[1].anchor = prev.relations[1].anchor
        /\ relations[1].insert = prev.relations[1].insert
        /\ relations[1].size = prev.relations[1].size
        /\ relations[1].le = prev.relations[1].le
        /\ relations[1].enabled = prev.relations[1].enabled
        /\ IF RejectedForWidth
           THEN /\ relations[1].value = u64_wrapping_add(prev.relations[1].value, op.size)
                /\ relations[1].value # prev.relations[1].value
                /\ exceeds_max_val(relations[1].value, relations[1].size)
           ELSE relations[1].value = prev.relations[1].value

\* An insertion inside the governed range rejected because the value no
\* longer fits the width.
C32_Witness ==
    /\ RejectedForWidth
    /\ op.idx >= prev.relations[1].anchor
    /\ op.idx <= prev.relations[1].insert
    /\ relations[1].pos = prev.relations[1].pos

\* A step of the search appended a relation.
Committed == Len(relations') = Len(relations) + 1

\* The seed with the field of the pending candidate corrupted: its value plus
\* the shift, written in the candidate's width and byte order.
PendingCorrupted ==
    LET size == rel_types[search.c.t].size
        le   == rel_types[search.c.t].le
        v    == u64_low(from_bytes(raw, search.c.i, size, le))
        low  == SubSeq(u64(v + shift_amount(size, v)), 1, size)
    IN  splice(raw, search.c.i, search.c.i + size, IF le THEN low ELSE Reverse(low))

\* The focus indices the corrupted seed no longer executes.
PendingLost ==
    {j \in ctx.focus_indices : test(ctx.oracle, PendingCorrupted)[j + 1] = 0}

\* theta = max(1, ceil(loss_ratio x |focus_indices|)), loss_ratio in hundredths.
Theta ==
    LET product == ctx.options.loss_threshold * Cardinality(ctx.focus_indices)
        ceiled  == IF product % 100 = 0 THEN product \div 100 ELSE product \div 100 + 1
    IN  IF ceiled >= 1 THEN ceiled ELSE 1

\* C33: commit gates.  A relation is appended for a candidate only if its
\* decoded value is between 1 and len(seed), none of its bytes is blocked, the
\* probe with the corrupted field lost at least theta focus indices, and the
\* anchor it is committed with recovered at least the fraction
\* recover_threshold of the lost indices; a candidate whose corruption loses
\* no focus coverage is not committed and costs one oracle call, the one of
\* the corrupted field.
C33_CommitGates ==
    [][ ProbePending =>
          LET i    == search.c.i
              size == rel_types[search.c.t].size
              v    == from_bytes(raw, i, size, rel_types[search.c.t].le)
          IN  /\ ctx.loss_threshold = Theta
              /\ Committed =>
                   LET new == relations'[Len(relations')]
                       one == AnchorAlone(new.anchor)
                   IN  /\ new.pos = i /\ new.size = size /\ new.value = v
                       /\ ~u64_is_big(v) /\ u64_low(v) >= 1 /\ u64_low(v) <= Len(raw)
                       /\ \A k \in 1..Len(relations) : \A b \in i..(i + size - 1) :
                             ~(b >= relations[k].pos /\ b < relations[k].pos + relations[k].size)
                       /\ Cardinality(PendingLost) >= Theta
                       /\ one.matched
                       /\ one.den = Cardinality(PendingLost)
                       /\ one.num * 100 >= ctx.options.recover_threshold * one.den
              /\ PendingLost = {} =>
                   /\ ~Committed
                   /\ ctx'.test_count = ctx.test_count + 1 ]_vars

\* A relation has been committed under the default options, and the probe
\* pending now is of a candidate whose corruption loses nothing.
C33_Witness ==
    /\ ProbePending
    /\ ctx.options = default_options
    /\ Len(relations) >= 1
    /\ ctx.focus_indices # {}
    /\ PendingLost = {}

\* What a relation is outside its snapshot: offsets, value, shape and flag.
Live(r) ==
    [pos |-> r.pos, anchor |-> r.anchor, insert |-> r.insert, value |-> r.value,
     size |-> r.size, le |-> r.le, enabled |-> r.enabled]

\* The search is at a candidate that passed the gates: its probe is next.
AtCandidate == phase = "search" /\ search.c.i < Len(raw)

\* input.relations, test_buffer and the visited cache when the first anchor
\* of the candidate under the cursor is tested.
BeforeAnchors ==
    CHOOSE at \in candidate_leaves(raw, relations, search.test_buffer,
                                   search.c.i, search.c.t, FALSE, FALSE) : TRUE

\* The anchors whose bookkeeping on_insert is rejected by a relation after
\* another relation of the list has taken it.
FailsPartWay ==
    {a \in anchor_candidates(relations, search.c.i, rel_types[search.c.t].size) :
        LET curr  == u64_low(from_bytes(raw, search.c.i, rel_types[search.c.t].size,
                                        rel_types[search.c.t].le))
            ins   == a + curr
            moved == Structured_on_insert(BeforeAnchors.relations, ins,
                                          shift_amount(rel_types[search.c.t].size, curr))
        IN  /\ ins <= Len(raw) /\ a < Len(raw)
            /\ ~moved.ok
            /\ \E k \in 1..Len(relations) :
                  Live(moved.relations[k]).pos # Live(relations[k]).pos}

\* C34: speculative probes are fully rolled back.  The search never changes
\* the seed bytes; every relation of the list keeps its index, pos, anchor,
\* insert, value and enabled over every step of the search, so the relations
\* present before the search are returned as they were; at the start of every
\* candidate's probe the scratch buffer equals the seed; and every anchor of
\* the candidate, tested on its own, leaves the relations and the scratch
\* buffer as it found them, also when the bookkeeping on_insert fails
\* part-way through the relation list.
C34_ProbesRolledBack ==
    /\ [][ (phase = "search" /\ phase' \in {"search", "ready"}) =>
             /\ raw' = raw
             /\ Len(relations') >= Len(relations)
             /\ \A k \in 1..Len(relations) : Live(relations'[k]) = Live(relations[k]) ]_vars
    /\ [](AtCandidate =>
             /\ search.test_buffer = raw
             /\ BeforeAnchors.test_buffer = raw
             /\ \A a \in anchor_candidates(relations, search.c.i, rel_types[search.c.t].size) :
                   LET left == check_anchor_leaves(raw, search.c.i, search.c.t, a, BeforeAnchors)
                   IN  /\ left.test_buffer = raw
                       /\ Len(left.relations) = Len(relations)
                       /\ \A k \in 1..Len(relations) :
                             Live(left.relations[k]) = Live(relations[k]))
    /\ []((phase = "ready" /\ nedits = 0) =>
             /\ raw = prev.raw
             /\ Len(relations) >= Len(prev.relations)
             /\ \A k \in 1..Len(prev.relations) :
                   Live(relations[k]) = Live(prev.relations[k]))

\* The probe of a candidate in a buffer with two relations: the insertion of
\* its anchor moves the first relation and is rejected by the second.
C34_Witness ==
    /\ AtCandidate
    /\ Len(relations) = 2
    /\ FailsPartWay # {}

\* The last call was Structured::write, on a buffer whose enabled relations
\* were in range with pairwise disjoint fields.
WroteWellFormed ==
    /\ op.name = "write"
    /\ RangeInvariant(prev.raw, prev.relations)
    /\ FieldsDisjoint(prev.relations)

\* The enabled relations whose field holds byte b (0-based).
FieldsAt(rels, b) ==
    {k \in EnabledAt(rels) : b >= rels[k].pos /\ b < rels[k].pos + rels[k].size}

\* C35: write(idx, data) with idx + len(data) <= len(raw) returns, never
\* changes len(raw) and never changes a relation; afterwards every byte of
\* [idx, idx + len(data)) inside the field of an enabled relation holds that
\* relation's encoded value, and every other byte of the range holds data.
C35_WriteFrame ==
    WroteWellFormed =>
        /\ phase = "ready"
        /\ op.idx + Len(op.data) <= Len(prev.raw)
        /\ Len(raw) = Len(prev.raw)
        /\ relations = prev.relations
        /\ \A b \in op.idx..(op.idx + Len(op.data) - 1) :
              IF FieldsAt(relations, b) = {}
              THEN raw[b + 1] = op.data[b - op.idx + 1]
              ELSE \A k \in FieldsAt(relations, b) :
                      raw[b + 1] = Relation_bytes(relations[k])[b - relations[k].pos + 1]

\* A write of two bytes, one inside the field of an enabled relation, where
\* it was reverted, and one outside, where it changed the byte.
C35_Witness ==
    /\ WroteWellFormed
    /\ phase = "ready"
    /\ Len(op.data) = 2
    /\ \E b, c \in op.idx..(op.idx + 1) :
          /\ FieldsAt(relations, b) # {}
          /\ raw[b + 1] # op.data[b - op.idx + 1]
          /\ FieldsAt(relations, c) = {}
          /\ raw[c + 1] # prev.raw[c + 1]

\* The anchors check_anchor tests for the pending candidate: the loss passed
\* the threshold, the anchor passed check_anchor's gates, and it is a local
\* anchor, or an inflection point when no local anchor matched.
TestedAnchors ==
    LET size == rel_types[search.c.t].size
        curr == u64_low(from_bytes(raw, search.c.i, size, rel_types[search.c.t].le))
    IN  {a \in anchor_candidates(relations, search.c.i, size) :
            /\ Cardinality(PendingLost) >= ctx.loss_threshold
            /\ check_anchor_ok(raw, save_relations(relations), a, curr,
                               shift_amount(size, curr))
            /\ \/ \E k \in 1..Len(PendingLocal) : PendingLocal[k] = a
               \/ ~PendingLocalMatch.matched}

\* The buffer the oracle is handed for the anchor a of the pending candidate.
ProbeSent(a) ==
    LET size == rel_types[search.c.t].size
        curr == u64_low(from_bytes(raw, search.c.i, size, rel_types[search.c.t].le))
        moved == Structured_on_insert(BeforeAnchors.relations, a + curr,
                                      shift_amount(size, curr))
    IN  scratch_buffer(BeforeAnchors.test_buffer, raw, moved.relations,
                       search.c.i, search.c.t, a)

\* The later mutation: the relation {pos = i, value = v, anchor, insert = ins}
\* added to the seed buffer, then the strict insert(ins, shift bytes of 0x41).
MutationOf(a) ==
    LET size  == rel_types[search.c.t].size
        le    == rel_types[search.c.t].le
        v     == from_bytes(raw, search.c.i, size, le)
        ins   == a + u64_low(v)
        shift == shift_amount(size, u64_low(v))
        added == Append(relations, Relation_new(search.c.i, v, size, le, a, ins))
        res   == strict_loop(added, insert_results(added, ins, shift))
    IN  [ ok  |-> res.ok,
          raw |-> sanitize(splice(raw, ins, ins, [k \in 1..shift |-> 65]), res.relations) ]

\* The insertion offset of anchor a for the pending candidate.
InsOf(a) ==
    a + u64_low(from_bytes(raw, search.c.i, rel_types[search.c.t].size,
                           rel_types[search.c.t].le))

\* C36 (as stated): the probe tests what a later mutation does.  For every
\* candidate and every tested (anchor, ins), the scratch buffer sent to the
\* oracle equals the raw bytes obtained by adding the relation to the seed
\* buffer and calling the strict insert(ins, shift bytes of 0x41), whenever
\* that insert succeeds; the field is written at its shifted position
\* whenever ins <= i.
C36_ProbeIsMutation ==
    ProbePending =>
        \A a \in TestedAnchors :
            MutationOf(a).ok => ProbeSent(a) = MutationOf(a).raw

\* The probe of a 2-byte candidate at i whose anchor 0 gives ins = i: the
\* insertion is tested, the strict insert succeeds, and the two buffers hold
\* the corrupted field at different offsets.
C36_Witness ==
    /\ ProbePending
    /\ raw = SeedPrefix
    /\ ctx.oracle = "prefix"
    /\ search.c.i = 2
    /\ 0 \in TestedAnchors
    /\ InsOf(0) = search.c.i
    /\ MutationOf(0).ok
    /\ ProbeSent(0) # MutationOf(0).raw

\* ---------------------------------------------------------------------------
\* Append order of the relations a search adds (find_relations,
\* find_relations_inner).  The searches below start from a seed with no relation,
\* so every relation in the list was added by the search itself.

\* The offsets and value of a relation, without its save slots.
Shape(r) == [pos |-> r.pos, size |-> r.size, le |-> r.le, value |-> r.value,
             anchor |-> r.anchor, insert |-> r.insert]

AddedOne == Len(relations') = Len(relations) + 1

\* C37 as stated: in the list a search leaves, each relation it added has a
\* larger pos than every relation it added before, over all passes.
C37_AppendOrder ==
    phase \in {"search", "ready"} =>
        \A j, k \in 1..Len(relations) :
            j < k => relations[j].pos < relations[k].pos

\* C37 amended: a search step keeps the relations already in the list and adds
\* at most one, at the end, for the field under the cursor; within one pass the
\* cursor never moves left and moves right past a confirmed field, so the
\* relations of one pass are in increasing pos, after those of earlier passes.
C37_AppendOrderPerPass ==
    [][(phase = "search" /\ phase' \in {"search", "ready"}) =>
          /\ Len(relations') >= Len(relations)
          /\ \A k \in 1..Len(relations) : Shape(relations'[k]) = Shape(relations[k])
          /\ Len(relations') > Len(relations) =>
                /\ AddedOne
                /\ relations'[Len(relations')].pos = search.c.i
                /\ search'.iter = search.iter
                /\ search'.c.i > search.c.i
          /\ (phase' = "search" /\ search'.iter = search.iter) =>
                search'.c.i >= search.c.i
          /\ (phase' = "search" /\ search'.iter # search.iter) =>
                search'.iter = search.iter + 1 /\ relations' = relations]_vars

\* A later pass has added a relation to the left of one an earlier pass added.
C37_Witness ==
    /\ phase = "search"
    /\ search.iter >= 2
    /\ search.found
    /\ Len(relations) >= 2
    /\ relations[Len(relations)].pos < relations[1].pos

\* ---------------------------------------------------------------------------
\* A buffer with no relations under the mutation primitives (HasMutatorBytes for
\* StructuredInput), against the same calls on a Vec<u8>.

\* The last call was splice, drain, extend or resize on a buffer whose relation
\* list was empty.
PlainCall ==
    /\ op.name \in {"splice", "drain", "extend", "resize"}
    /\ prev.relations = << >>

\* Vec<u8>::splice(idx..idx+size, data), drain(idx..idx+size),
\* extend(data), resize(len + |data|, fill) and resize(idx, _) on prev.raw.
VecAfter ==
    LET v == prev.raw
    IN  CASE op.name = "splice" ->
                 SubSeq(v, 1, op.idx) \o op.data \o SubSeq(v, op.idx + op.size + 1, Len(v))
          [] op.name = "drain"  ->
                 SubSeq(v, 1, op.idx) \o SubSeq(v, op.idx + op.size + 1, Len(v))
          [] op.name = "extend" -> v \o op.data
          [] op.name = "resize" ->
                 IF op.data = << >> THEN SubSeq(v, 1, op.idx) ELSE v \o op.data
          [] OTHER -> v

\* C38: a buffer with no relations behaves like a plain byte vector.  After
\* splice, drain, extend or resize on a buffer whose relation list is empty, the
\* raw bytes are those the same call leaves in a Vec<u8> that held the same
\* bytes (a growing resize has put the fill bytes at the end), the call has not
\* panicked, and the relation list is still empty.
C38_PlainVector ==
    PlainCall =>
        /\ phase # "crashed"
        /\ raw = VecAfter
        /\ relations = << >>

\* A growing resize has acted on a buffer with no relations.
C38_Witness ==
    /\ PlainCall
    /\ op.name = "resize"
    /\ op.data # << >>
    /\ Len(raw) = Len(prev.raw) + 1
    /\ raw[Len(raw)] = op.data[1]

========================================================================
